---- MODULE Spec2Model ----
(***************************************************************************)
(* Tick pipeline of stock_analysis.analysis as a state machine: the        *)
(* cleaner (tick_cleaner.py, TickDataCleaner.clean), the classifier        *)
(* (tick_flow.py, TickFlowAnalyzer.analyze), the window aggregator         *)
(* (tick_aggregator.py, TickAggregator.aggregate) and the anomaly detector *)
(* (tick_anomaly.py, TickAnomalyDetector.detect).                          *)
(*                                                                         *)
(* TLA+ strings are ASCII, so the Chinese names of the source are written  *)
(* in ASCII here:                                                          *)
(*   columns   "TIME" = 时间, "PRICE" = 成交价格, "VOLUME" = 成交量,       *)
(*             "AMOUNT" = 成交额, "AMOUNT_YUAN" = 成交额(元),              *)
(*             "NATURE" = 性质, "DIRECTION" = 方向,                        *)
(*             "NET_INFLOW" = 净流入额, "BUY_SIDE" = 买盘额,               *)
(*             "SELL_SIDE" = 卖盘额                                        *)
(*   labels    "Buy" = 买盘, "Sell" = 卖盘, "Neutral" = 中性盘             *)
(*   raw tags  "buy_short" = 买, "sell_short" = 卖, "neutral_short" = 中性,*)
(*             "active_buy" / "active_sell" = a text containing 买 / 卖,   *)
(*             "buy_sell" = a text containing both                         *)
(* Numbers: a price is an integer number of price units, a size an integer *)
(* number of lots (raw) or shares (cleaned), a turnover an integer number  *)
(* of price units x shares; pd.NA / NaN / NaT is <<>> and a present number *)
(* v is <<v>>.  A ratio is a pair <<numerator, denominator>>; the floating *)
(* point of the source is computed exactly.                                *)
(***************************************************************************)
EXTENDS Integers, Sequences, FiniteSets, TLC

VARIABLES
    pc,              \* "raw" | "cleaned" | "raised": position of the pipeline run;
                     \* "direct" | "windows": a stage is called on its own
    current_date,    \* the trading day passed to clean (a day number)
    batch,           \* the raw table passed to clean: [header, rows]
    clean_df,        \* clean's 1st result: the main table
    quality_flags,   \* clean's 2nd result: the flag list
    auction_df,      \* clean's 3rd result: the call-auction table
    inferred_ratio,  \* clean's 4th result
    df_normalized,   \* clean's local df_clean at line 175 (validated, tags normalized, sorted)
    df_inferred,     \* clean's local df_clean at line 218 (missing tags inferred)
    df_labelled,     \* clean's local df_clean at line 253 (before the session split)
    stage,           \* "idle" | "analyzed" | "aggregated" | "detected" | "reanalyzed";
                     \* "supplied": detect is about to be called on a caller's table
    df,              \* the table passed to analyze when the cleaner is not run
    flow_result,     \* what analyze returned
    window_tables,   \* what aggregate returned: window width -> window table
    anomaly_result,  \* what detect returned
    flow_again,      \* what analyze returned on the processed table of flow_result
    heap             \* the table objects: [next, of, written], see "table objects"

cleaner_vars == <<pc, current_date, batch, clean_df, quality_flags, auction_df,
                  inferred_ratio, df_normalized, df_inferred, df_labelled>>

vars == <<pc, current_date, batch, clean_df, quality_flags, auction_df,
          inferred_ratio, df_normalized, df_inferred, df_labelled,
          stage, df, flow_result, window_tables, anomaly_result, flow_again, heap>>

\* ---------------------------------------------------------------- bounds
MaxRows == 3

\* ---------------------------------------------------------------- values
NaN == <<>>
Some(v) == <<v>>
IsNA(x) == x = <<>>
Val(x) == x[1]

NA == "pd.NA"
Buy == "Buy"
Sell == "Sell"
Neutral == "Neutral"

Abs(x) == IF x < 0 THEN -x ELSE x

HMS(h, m, s) == h * 3600 + m * 60 + s

\* a raw numeric cell: text that parses to mant, optionally followed by a
\* CJK magnitude suffix ("wan" = 万, "yi" = 亿); ok = FALSE is unparsable text
Num(v) == [ok |-> TRUE, mant |-> v, unit |-> ""]
NumWan(v) == [ok |-> TRUE, mant |-> v, unit |-> "wan"]
BadNum == [ok |-> FALSE, mant |-> 0, unit |-> ""]

\* a raw time cell: a clock time, with or without a calendar date in the text
Clock(tod) == [ok |-> TRUE, hasDate |-> FALSE, day |-> 0, tod |-> tod]
Dated(d, tod) == [ok |-> TRUE, hasDate |-> TRUE, day |-> d, tod |-> tod]
BadTime == [ok |-> FALSE, hasDate |-> FALSE, day |-> 0, tod |-> 0]

\* ------------------------------------------------- column reconciliation
col_map(c) ==
    CASE c = "time" -> "TIME"
      [] c = "datetime" -> "TIME"
      [] c = "price" -> "PRICE"
      [] c = "volume" -> "VOLUME"
      [] c = "vol" -> "VOLUME"
      [] c = "amount" -> "AMOUNT"
      [] c = "type" -> "NATURE"
      [] OTHER -> c

\* df.rename(columns=col_map): the column names after renaming
Columns(header) == {col_map(c) : c \in header}

\* two raw columns renamed to one name: df[name] is then a table, not a
\* column, and .str / _to_numeric on it raises AttributeError
Duplicated(header, name) == Cardinality({c \in header : col_map(c) = name}) > 1

\* ------------------------------------------------------ numeric coercion
Multiplier(unit) ==
    CASE unit = "wan" -> 10000
      [] unit = "yi" -> 100000000
      [] OTHER -> 1

_to_numeric(tok) == IF tok.ok THEN Some(tok.mant * Multiplier(tok.unit)) ELSE NaN

\* pd.to_numeric(errors="coerce").fillna(0) of the price-delta column
DeltaNumeric(tok) == IF tok.ok /\ tok.unit = "" THEN tok.mant ELSE 0

\* --------------------------------------------------- timestamp completion
\* the date-less text gets current_date in front, then pd.to_datetime
ParseTime(tok, today) ==
    IF ~tok.ok THEN NaN
    ELSE Some((IF tok.hasDate THEN tok.day ELSE today) * 86400 + tok.tod)

TimeOfDay(t) == t % 86400
Hour(t) == TimeOfDay(t) \div 3600
Minute(t) == (TimeOfDay(t) % 3600) \div 60
Second(t) == TimeOfDay(t) % 60
\* strftime("%H:%M"): zero padded, so the string order is the order of
\* the minute of the day
HHMM(t) == TimeOfDay(t) \div 60
Clk(h, m) == h * 60 + m

\* ------------------------------------------------------------ validation
HasCol(b, name) == name \in Columns(b.header)

\* lines 62-73: rows with their parsed time, the unparsable ones dropped;
\* idx is the row's index label in the caller's table
RowsWithTime(b, today) ==
    SelectSeq([i \in 1..Len(b.rows) |->
                  [idx |-> i, time |-> ParseTime(b.rows[i].time, today), raw |-> b.rows[i]]],
              LAMBDA r : ~IsNA(r.time))

\* mutant of PriceValid: a zero price kept
PriceValid_nonneg(raw) == ~IsNA(_to_numeric(raw.price)) /\ Val(_to_numeric(raw.price)) >= 0
\* lines 83-85: the comparisons are False on NaN
PriceValid(raw) == ~IsNA(_to_numeric(raw.price)) /\ Val(_to_numeric(raw.price)) > 0
VolumeValid(raw) == ~IsNA(_to_numeric(raw.vol)) /\ Val(_to_numeric(raw.vol)) >= 0

\* lines 86-92: the size in shares (a lot is 100 shares); 0 without a size column
Shares(b, raw) == IF HasCol(b, "VOLUME") THEN Val(_to_numeric(raw.vol)) * 100 ELSE 0

\* mutant of Turnover: the supplied turnover, 0 when it is missing
Turnover_supplied(b, raw) ==
    IF HasCol(b, "AMOUNT") /\ ~IsNA(_to_numeric(raw.amt)) THEN Val(_to_numeric(raw.amt)) ELSE 0
\* lines 94-116: the supplied turnover, backfilled from price x shares when
\* it is missing, or non-positive while the product is positive
Turnover(b, raw) ==
    LET supplied == IF HasCol(b, "AMOUNT") THEN _to_numeric(raw.amt) ELSE NaN
        computed == Val(_to_numeric(raw.price)) * Shares(b, raw)
    IN  IF IsNA(supplied) THEN computed
        ELSE IF Val(supplied) <= 0 /\ computed > 0 THEN computed
        ELSE Val(supplied)

\* ------------------------------------------------- direction-tag recovery
valid_natures == {Buy, Sell, Neutral}

\* line 124-142: exact-value replacement
nature_map(tag) ==
    CASE tag \in {"Buy", "buy_short", "B", "b"} -> Buy
      [] tag \in {"Sell", "sell_short", "S", "s"} -> Sell
      [] tag \in {"Neutral", "neutral_short", "N", "n"} -> Neutral
      [] tag \in {"nan", "NaN", "None", "<NA>", ""} -> NA
      [] OTHER -> tag

\* line 146: pd.to_numeric(errors="coerce") of a tag
NatureNumeric(tag) ==
    CASE tag = "1" -> Some(1)
      [] tag = "2" -> Some(2)
      [] tag = "-1" -> Some(-1)
      [] tag = "0" -> Some(0)
      [] OTHER -> NaN

\* lines 155-156: str.contains of the buy / sell character
ContainsBuy(tag) == tag \in {"Buy", "buy_short", "active_buy", "buy_sell"}
ContainsSell(tag) == tag \in {"Sell", "sell_short", "active_sell", "buy_sell"}

\* mutant of NormalizeNature: a tag that is not recognised kept as it is
NormalizeNature_kept(tag) == nature_map(tag)
\* lines 123-162, one cell
NormalizeNature(tag) ==
    LET mapped == nature_map(tag)
        num == IF mapped = NA THEN NaN ELSE NatureNumeric(mapped)
        signed == IF IsNA(num) THEN mapped
                  ELSE IF Val(num) > 0 THEN Buy
                  ELSE IF Val(num) < 0 THEN Sell
                  ELSE Neutral
        unknown == signed \notin valid_natures /\ signed # NA
        hinted == IF unknown /\ ContainsSell(signed) THEN Sell
                  ELSE IF unknown /\ ContainsBuy(signed) THEN Buy
                  ELSE signed
    IN  IF hinted \in valid_natures THEN hinted ELSE NA

\* lines 75-162: the row as it stands at line 162 (source "raw" is set at 171)
CleanRow(b, r) ==
    [idx |-> r.idx,
     time |-> Val(r.time),
     price |-> Val(_to_numeric(r.raw.price)),
     volume |-> Shares(b, r.raw),
     amount |-> Turnover(b, r.raw),
     delta |-> DeltaNumeric(r.raw.delta),
     nature |-> IF HasCol(b, "NATURE") THEN NormalizeNature(r.raw.nature) ELSE NA,
     source |-> "raw"]

\* lines 83-162: the rows that pass the price and size filters
Validated(b, today) ==
    LET timed == RowsWithTime(b, today)
        kept == SelectSeq(timed, LAMBDA r : PriceValid(r.raw)
                                  /\ (HasCol(b, "VOLUME") => VolumeValid(r.raw)))
    IN  [i \in 1..Len(kept) |-> CleanRow(b, kept[i])]

\* ---------------------------------------------------------------- sorting
Perms(n) == {p \in [1..n -> 1..n] : \A i, j \in 1..n : p[i] = p[j] => i = j}

\* line 170: sort_values("时间") uses the default quicksort, which is not
\* stable: rows of equal time may come out in any order
SortOrders(s) ==
    {p \in Perms(Len(s)) : \A i, j \in 1..Len(s) : i < j => s[p[i]].time <= s[p[j]].time}

Permuted(s, p) == [i \in 1..Len(s) |-> s[p[i]]]

Count(s, P(_)) == Cardinality({i \in 1..Len(s) : P(s[i])})

\* ------------------------------------------------------ label inference
\* a/b < c/d for ratios of positive denominator
RLess(x, y) == x[1] * y[2] < y[1] * x[2]

\* lines 185-188: the first explicit price-delta column of the table
price_delta_col(b) == "price_change" \in Columns(b.header)

\* lines 200-201: pct_change of the price at position i >= 2 and its absolute value
PctChange(s, i) == <<s[i].price - s[i - 1].price, s[i - 1].price>>
AbsChange(s, i) == <<Abs(s[i].price - s[i - 1].price), s[i - 1].price>>

\* the non-NaN absolute changes in ascending order
SortedAbsChanges(s) ==
    LET k == Len(s) - 1
        v == [i \in 1..k |-> AbsChange(s, i + 1)]
        p == CHOOSE q \in Perms(k) : \A i, j \in 1..k : i < j => ~RLess(v[q[j]], v[q[i]])
    IN  [i \in 1..k |-> v[p[i]]]

\* mutant of Quantile30: no dynamic threshold, the fixed floor alone
Quantile30_zero(s) == <<0, 1>>
\* line 202: Series.quantile(0.3), linear interpolation between the order
\* statistics around position 0.3 * (k - 1); NaN (here 0/1, line 203-204) when
\* there is no change to take it of
Quantile30(s) ==
    LET k == Len(s) - 1
        v == SortedAbsChanges(s)
        lo == (3 * (k - 1)) \div 10
        f == (3 * (k - 1)) % 10
    IN  IF k < 1 THEN <<0, 1>>
        ELSE IF f = 0 THEN v[lo + 1]
        ELSE <<(10 - f) * v[lo + 1][1] * v[lo + 2][2] + f * v[lo + 2][1] * v[lo + 1][2],
               10 * v[lo + 1][2] * v[lo + 2][2]>>

FloorNum == 1
FloorDen == 10000

\* line 205, 208: price_change > max(0.0001, dynamic)
AboveThreshold(s, c) == RLess(<<FloorNum, FloorDen>>, c) /\ RLess(Quantile30(s), c)
\* line 209: price_change < -max(0.0001, dynamic)
BelowThreshold(s, c) == AboveThreshold(s, <<-c[1], c[2]>>)

\* lines 207-209 (and 231, 245-246): the label inferred from the price
\* change; the first row's change is NaN, so it stays Neutral
InferFromPrice(s, i) ==
    IF i = 1 THEN Neutral
    ELSE IF AboveThreshold(s, PctChange(s, i)) THEN Buy
    ELSE IF BelowThreshold(s, PctChange(s, i)) THEN Sell
    ELSE Neutral

\* lines 192-194 (and 236-237): the label inferred from the delta column
InferFromDelta(s, i) ==
    IF s[i].delta > 0 THEN Buy ELSE IF s[i].delta < 0 THEN Sell ELSE Neutral

\* mutant of Inferred: the price change used although there is a delta column
Inferred_price(b, s, i) == InferFromPrice(s, i)
\* lines 190, 199: the delta column when the table has one, else the price
Inferred(b, s, i) == IF price_delta_col(b) THEN InferFromDelta(s, i) ELSE InferFromPrice(s, i)

\* mutant of InferMissing: the valid tags overwritten too
InferMissing_overwrite(b, s) ==
    [i \in 1..Len(s) |-> [s[i] EXCEPT !.nature = Inferred(b, s, i), !.source = "inferred"]]
\* lines 183-217: the rows with a missing tag get the inferred label
InferMissing(b, s) ==
    [i \in 1..Len(s) |->
        IF s[i].nature = NA
        THEN [s[i] EXCEPT !.nature = Inferred(b, s, i), !.source = "inferred"]
        ELSE s[i]]

\* mutant of MissingRatio: the share of the rows that have a tag
MissingRatio_present(s) ==
    IF Len(s) > 0 THEN <<Count(s, LAMBDA r : r.nature # NA), Len(s)>> ELSE <<0, 1>>
\* lines 195-217: the ratio after the first pass
MissingRatio(s) ==
    IF Len(s) > 0 THEN <<Count(s, LAMBDA r : r.nature = NA), Len(s)>> ELSE <<0, 1>>

\* lines 221-223: the guard of the full re-inference
AllNeutralCheck(s, ratio) ==
    Len(s) > 0 /\ ratio[1] = 0 /\ Count(s, LAMBDA r : r.nature \in {Buy, Sell}) = 0

\* mutant of InferAll: the provenance of the first pass
InferAll_inferred(b, s) ==
    [i \in 1..Len(s) |-> [s[i] EXCEPT !.nature = Inferred(b, s, i), !.source = "inferred"]]
\* lines 224-251: every label replaced by the inferred one
InferAll(b, s) ==
    [i \in 1..Len(s) |-> [s[i] EXCEPT !.nature = Inferred(b, s, i), !.source = "inferred_all"]]

\* ------------------------------------------------------ session filtering
\* mutant of auction_mask: the upper bound exclusive
auction_mask_exclusive(r) == HHMM(r.time) >= Clk(9, 15) /\ HHMM(r.time) < Clk(9, 25)
\* line 255
auction_mask(r) == HHMM(r.time) >= Clk(9, 15) /\ HHMM(r.time) <= Clk(9, 25)
\* mutant of morning_mask: the upper bound one minute late
morning_mask_late(r) == HHMM(r.time) >= Clk(9, 30) /\ HHMM(r.time) <= Clk(11, 31)
\* line 260
morning_mask(r) == HHMM(r.time) >= Clk(9, 30) /\ HHMM(r.time) <= Clk(11, 30)
\* line 262
afternoon_mask(r) == HHMM(r.time) >= Clk(13, 0) /\ HHMM(r.time) <= Clk(15, 0)
\* mutant of valid_time_mask: the closing minute kept whole
valid_time_mask_minute(r) ==
    Hour(r.time) < 15 \/ (Hour(r.time) = 15 /\ Minute(r.time) = 0)
\* lines 271-274
valid_time_mask(r) ==
    Hour(r.time) < 15 \/ (Hour(r.time) = 15 /\ Minute(r.time) = 0 /\ Second(r.time) = 0)

\* lines 254-275
AuctionRows(s) == SelectSeq(s, auction_mask)
MainRows(s) ==
    SelectSeq(s, LAMBDA r : ~auction_mask(r) /\ (morning_mask(r) \/ afternoon_mask(r))
                            /\ valid_time_mask(r))

\* lines 281-283: the extreme-jump tag of the main table
TagJumps(s) ==
    [i \in 1..Len(s) |->
        [idx |-> s[i].idx, time |-> s[i].time, price |-> s[i].price,
         volume |-> s[i].volume, amount |-> s[i].amount, delta |-> s[i].delta,
         nature |-> s[i].nature, source |-> s[i].source,
         extreme |-> i > 1 /\ RLess(<<5, 1>>, AbsChange(s, i))]]

\* ----------------------------------------------------------- flag lists
\* lines 72-73
TimeFlags(b, today) ==
    IF Len(RowsWithTime(b, today)) < Len(b.rows) THEN <<"invalid_time">> ELSE <<>>

\* lines 84-92
VolumeFlags(b) ==
    IF HasCol(b, "VOLUME") THEN <<"volume_assumed_hands", "volume_unit_shares">>
    ELSE <<"missing_volume">>

\* mutant of NatureFlags: the comparison inverted
NatureFlags_inverted(b, s) ==
    IF ~HasCol(b, "NATURE") THEN <<"missing_nature">>
    ELSE IF Len(s) > 0 /\ 2 * Count(s, LAMBDA r : r.nature \in valid_natures) > Len(s)
         THEN <<"nature_low_quality">>
    ELSE <<>>
\* lines 119-121, 164-168
NatureFlags(b, s) ==
    IF ~HasCol(b, "NATURE") THEN <<"missing_nature">>
    ELSE IF Len(s) > 0 /\ 2 * Count(s, LAMBDA r : r.nature \in valid_natures) < Len(s)
         THEN <<"nature_low_quality">>
    ELSE <<>>

\* lines 175-181: valid_ratio is 0.0 for an empty table
LowQualityInferFlags(s) ==
    IF Len(s) = 0 \/ 2 * Count(s, LAMBDA r : r.nature \in valid_natures) < Len(s)
    THEN <<"nature_low_quality_infer">> ELSE <<>>

\* lines 183-213
InferenceFlags(b, s) ==
    IF Count(s, LAMBDA r : r.nature = NA) = 0 THEN <<>>
    ELSE IF price_delta_col(b) THEN <<"inferred_nature_price_delta">>
    ELSE <<"inferred_threshold_dynamic", "inferred_nature">>

\* ------------------------------------------------------------------ clean
\* what clean does on the table b with its rows sorted in the order `order`:
\* [raised, clean_df, quality_flags, auction_df, inferred_ratio] and the two
\* snapshots of its local table
Returned(main, flags, auction, ratio, normalized, first, labelled) ==
    [raised |-> FALSE, clean_df |-> main, quality_flags |-> flags,
     auction_df |-> auction, inferred_ratio |-> ratio,
     df_normalized |-> normalized, df_inferred |-> first, df_labelled |-> labelled]

Raised ==
    [raised |-> TRUE, clean_df |-> <<>>, quality_flags |-> <<>>,
     auction_df |-> <<>>, inferred_ratio |-> <<0, 1>>,
     df_normalized |-> <<>>, df_inferred |-> <<>>, df_labelled |-> <<>>]

\* lines 21-22: df.empty is true of a table without rows or without columns
IsEmpty(b) == "absent" \in DOMAIN b \/ Len(b.rows) = 0 \/ b.header = {}

\* lines 170-286
CleanSorted(b, today, s) ==
    LET first == InferMissing(b, s)
        ratio == MissingRatio(s)
        full == AllNeutralCheck(first, ratio)
        labelled == IF full THEN InferAll(b, first) ELSE first
        main == MainRows(labelled)
        flags == TimeFlags(b, today) \o VolumeFlags(b) \o NatureFlags(b, s)
                 \o LowQualityInferFlags(s) \o InferenceFlags(b, s)
                 \o (IF full THEN <<"nature_all_neutral_inferred">> ELSE <<>>)
                 \o (IF Len(main) = 0 THEN <<"non_trading_time">> ELSE <<>>)
    IN  Returned(TagJumps(main), flags, AuctionRows(labelled),
                 IF full THEN <<1, 1>> ELSE ratio, s, first, labelled)

\* lines 20-168: the early returns and the columns whose duplication raises
CleanOutcomes(b, today) ==
    IF IsEmpty(b) THEN {Returned(<<>>, <<"empty_tick">>, <<>>, <<0, 1>>, <<>>, <<>>, <<>>)}
    ELSE IF ~HasCol(b, "TIME")
    THEN {Returned(<<>>, <<"missing_time">>, <<>>, <<0, 1>>, <<>>, <<>>, <<>>)}
    ELSE IF Duplicated(b.header, "TIME") \/ Duplicated(b.header, "PRICE")
            \/ Duplicated(b.header, "VOLUME") \/ Duplicated(b.header, "AMOUNT")
    THEN {Raised}
    ELSE IF ~HasCol(b, "PRICE")
    THEN {Returned(<<>>, TimeFlags(b, today) \o <<"missing_price">>, <<>>, <<0, 1>>, <<>>, <<>>, <<>>)}
    ELSE IF Duplicated(b.header, "NATURE") THEN {Raised}
    ELSE {CleanSorted(b, today, Permuted(Validated(b, today), p)) :
             p \in SortOrders(Validated(b, today))}

\* ------------------------------------------------------------ table objects
\* A table is an object with an identity.  heap.of gives, for each table the
\* caller holds, the identities of its objects; heap.written the objects
\* some stage has assigned into; heap.next the identity of the next object
\* to be allocated.
Slots == {"batch", "df", "clean_df", "auction_df", "processed_df", "large_orders",
          "windows", "again_processed", "again_large"}

NoObjects == [s \in Slots |-> {}]
Nothing == [s \in {} |-> {}]

\* the heap after a call that allocated `used` objects, returned the
\* objects `returned` (slot -> identities) and assigned into the objects w
Put(h, returned, used, w) ==
    [next |-> h.next + used, of |-> returned @@ h.of, written |-> h.written \cup w]

\* mutant of CopyOf: the table itself in place of its copy
CopyOf_alias(src, fresh) == src
\* df.copy(): a new object (tick_cleaner.py line 24, tick_flow.py line 26,
\* tick_aggregator.py line 17)
CopyOf(src, fresh) == fresh

\* clean: lines 21-22 return two new empty tables before anything is
\* copied; line 24 copies the table and line 25 assigns the copy's column
\* names; line 286 returns the reset_index of the filtered main table and
\* of the copy of the auction rows (line 256), two new objects
CleanHeap(h, b, raised) ==
    LET work == CopyOf(h.of["batch"], {h.next})
    IN  IF IsEmpty(b)
        THEN Put(h, ("clean_df" :> {h.next}) @@ ("auction_df" :> {h.next + 1}), 2, {})
        ELSE IF raised THEN Put(h, Nothing, 1, work)
        ELSE Put(h, ("clean_df" :> {h.next + 1}) @@ ("auction_df" :> {h.next + 2}), 3, work)

Clean ==
    /\ pc = "raw"
    /\ \E out \in CleanOutcomes(batch, current_date) :
          /\ pc' = IF out.raised THEN "raised" ELSE "cleaned"
          /\ clean_df' = out.clean_df
          /\ quality_flags' = out.quality_flags
          /\ auction_df' = out.auction_df
          /\ inferred_ratio' = out.inferred_ratio
          /\ df_normalized' = out.df_normalized
          /\ df_inferred' = out.df_inferred
          /\ df_labelled' = out.df_labelled
          /\ heap' = CleanHeap(heap, batch, out.raised)
    /\ UNCHANGED <<current_date, batch, stage, df, flow_result, window_tables,
                   anomaly_result, flow_again>>

\* ------------------------------------------------------------------ tables
\* a table handed from one stage to the next: its column names and its rows;
\* None is the absent table
Table(h, rows) == [header |-> h, rows |-> rows]
None == [header |-> {}, rows |-> <<>>, absent |-> TRUE]
NoFrame == Table({}, <<>>)

\* `df is None or df.empty`
IsBlank(t) == "absent" \in DOMAIN t \/ Len(t.rows) = 0 \/ t.header = {}

\* the columns of the main table clean returns (tick_cleaner.py lines 57-283)
CleanColumns == {"TIME", "PRICE", "VOLUME", "AMOUNT_YUAN", "NATURE"}

\* the main table of clean as the table passed on to analyze
\* (analysis_page.py lines 830, 859); pd.DataFrame() when it has no rows
CleanTable(t) ==
    IF Len(t) = 0 THEN NoFrame
    ELSE Table(CleanColumns,
               [i \in 1..Len(t) |->
                   [time |-> Some(t[i].time), price |-> t[i].price, volume |-> t[i].volume,
                    amount |-> t[i].amount, nature |-> t[i].nature]])

RECURSIVE SumSeq(_)
SumSeq(s) == IF s = <<>> THEN 0 ELSE Head(s) + SumSeq(Tail(s))

Max(a, b) == IF a >= b THEN a ELSE b

\* the k-th smallest of the values of a sequence
Kth(v, k) ==
    CHOOSE x \in {v[i] : i \in DOMAIN v} :
        /\ Cardinality({i \in DOMAIN v : v[i] < x}) < k
        /\ k <= Cardinality({i \in DOMAIN v : v[i] <= x})

\* 100 x the pct-th percentile of a non-empty sequence, by linear
\* interpolation (np.percentile and Series.quantile defaults)
Percentile100(v, pct) ==
    LET n == Len(v)
        lo == (pct * (n - 1)) \div 100
        f == (pct * (n - 1)) % 100
    IN  IF f = 0 THEN 100 * Kth(v, lo + 1)
        ELSE (100 - f) * Kth(v, lo + 1) + f * Kth(v, lo + 2)

\* -------------------------------------------------------------- classifier
large_order_percentile == 90
large_order_min == 200000

\* line 33
direction_map(tag) ==
    CASE tag = Buy -> Some(1)
      [] tag = Sell -> Some(-1)
      [] tag = Neutral -> Some(0)
      [] OTHER -> NaN

\* lines 29-30: the label column, all Neutral when the table has none
Nature(t, i) == IF "NATURE" \in t.header THEN t.rows[i].nature ELSE Neutral

\* line 34
Mapped(t, i) == direction_map(Nature(t, i))

\* line 35: the number of labels without a direction
na_count(t) == Cardinality({i \in DOMAIN t.rows : IsNA(Mapped(t, i))})

\* mutant of DirectionNaHigh: fewer than a tenth of the labels mapped
DirectionNaHigh_valid(t) == 10 * (Len(t.rows) - na_count(t)) < Len(t.rows)
\* line 36: na_ratio > 0.1
DirectionNaHigh(t) == 10 * na_count(t) > Len(t.rows)
\* line 39: na_ratio == 1.0
DirectionAllNa(t) == na_count(t) = Len(t.rows)

\* line 41: fillna(0)
Filled(t, i) == IF IsNA(Mapped(t, i)) THEN 0 ELSE Val(Mapped(t, i))

\* mutant of Fallback: only when no label has a direction at all
Fallback_unmapped(t) == DirectionAllNa(t) /\ "PRICE" \in t.header
\* line 42: no record is +1 or -1, and there is a price column
Fallback(t) ==
    /\ \A i \in DOMAIN t.rows : Filled(t, i) = 0
    /\ "PRICE" \in t.header

\* lines 43-45: the sign of the price difference to the previous row
PriceSign(t, i) ==
    IF i = 1 THEN 0
    ELSE IF t.rows[i].price > t.rows[i - 1].price THEN 1
    ELSE IF t.rows[i].price < t.rows[i - 1].price THEN -1
    ELSE 0

\* lines 34-46
Direction(t, i) == IF Fallback(t) THEN PriceSign(t, i) ELSE Filled(t, i)

\* lines 48-52: the turnover column, 0.0 when the table has none
Amount(t, i) == IF "AMOUNT_YUAN" \in t.header THEN t.rows[i].amount ELSE 0

Amounts(t) == [i \in DOMAIN t.rows |-> Amount(t, i)]

\* lines 56-62: the turnover of the records of one direction
SideAmount(t, d) ==
    SumSeq([i \in DOMAIN t.rows |-> IF Direction(t, i) = d THEN Amount(t, i) ELSE 0])
SideCount(t, d) == Cardinality({i \in DOMAIN t.rows : Direction(t, i) = d})

\* mutant of GuardedRatio: the division without its guard
GuardedRatio_unguarded(num, denom) == <<num, denom>>
\* lines 64-67: a ratio over buy + sell turnover, 0.0 unless that is positive
GuardedRatio(num, denom) == IF denom > 0 THEN <<num, denom>> ELSE <<0, 1>>

\* line 67
Ofi(t) == GuardedRatio(SideAmount(t, 1) - SideAmount(t, -1), SideAmount(t, 1) + SideAmount(t, -1))

\* line 70: the size column summed
TotalVolume(t) == SumSeq([i \in DOMAIN t.rows |-> t.rows[i].volume])
HasVolume(t) == "VOLUME" \in t.header /\ TotalVolume(t) > 0
\* lines 69-73
Vwap(t) == IF HasVolume(t) THEN <<SumSeq(Amounts(t)), TotalVolume(t)>> ELSE <<0, 1>>

\* lines 76-81: 100 x the day-level threshold
Threshold100(t) ==
    Max(100 * large_order_min, Percentile100(Amounts(t), large_order_percentile))

\* line 85: the clock minute of a record, NaT for a record without a time
MinuteOf(t, i) == IF IsNA(t.rows[i].time) THEN NaN ELSE Some(Val(t.rows[i].time) \div 60)

\* the turnovers of the records in the clock minute m
MinuteAmounts(t, m) ==
    LET members == SelectSeq([i \in DOMAIN t.rows |-> i], LAMBDA i : MinuteOf(t, i) = Some(m))
    IN  [k \in DOMAIN members |-> Amount(t, members[k])]

\* mutant of MinuteThreshold100: the percentile without its lower bound
MinuteThreshold100_unclipped(t, m) ==
    Percentile100(MinuteAmounts(t, m), large_order_percentile)
\* lines 86-90: 100 x the threshold of the clock minute m
MinuteThreshold100(t, m) ==
    Max(100 * large_order_min, Percentile100(MinuteAmounts(t, m), large_order_percentile))

\* mutant of early_mask: the upper bound exclusive
early_mask_exclusive(t, i) ==
    /\ ~IsNA(t.rows[i].time)
    /\ HHMM(Val(t.rows[i].time)) >= Clk(9, 30) /\ HHMM(Val(t.rows[i].time)) < Clk(10, 30)
\* lines 97-98
early_mask(t, i) ==
    /\ ~IsNA(t.rows[i].time)
    /\ HHMM(Val(t.rows[i].time)) >= Clk(9, 30) /\ HHMM(Val(t.rows[i].time)) <= Clk(10, 30)

\* lines 91-99: 1000 x the record's threshold; the left merge leaves a
\* record without a time without a threshold
ThresholdSeries1000(t, i) ==
    IF IsNA(MinuteOf(t, i)) THEN NaN
    ELSE Some(MinuteThreshold100(t, Val(MinuteOf(t, i))) * (IF early_mask(t, i) THEN 12 ELSE 10))

\* mutant of is_large_order: the day-level threshold for every table
is_large_order_global(t, i) == 100 * Amount(t, i) >= Threshold100(t)
\* lines 84-102: >= is False against a missing threshold
is_large_order(t, i) ==
    IF "TIME" \in t.header
    THEN /\ ~IsNA(ThresholdSeries1000(t, i))
         /\ 1000 * Amount(t, i) >= Val(ThresholdSeries1000(t, i))
    ELSE 100 * Amount(t, i) >= Threshold100(t)

\* lines 26-102: the processed table
ProcessedColumns(t) ==
    t.header \cup {"NATURE", "DIRECTION", "AMOUNT_YUAN", "NET_INFLOW", "is_large_order"}
             \cup (IF "TIME" \in t.header THEN {"minute", "minute_threshold"} ELSE {})

ProcessedRow(t, i) ==
    [time |-> t.rows[i].time, price |-> t.rows[i].price, volume |-> t.rows[i].volume,
     amount |-> Amount(t, i), nature |-> Nature(t, i),
     direction |-> Direction(t, i),
     net_inflow |-> Amount(t, i) * Direction(t, i),
     is_large_order |-> is_large_order(t, i)]

Processed(t) == Table(ProcessedColumns(t), [i \in DOMAIN t.rows |-> ProcessedRow(t, i)])

\* line 104
LargeOrders(t) == SelectSeq(Processed(t).rows, LAMBDA r : r.is_large_order)

LargeAmount(t, d) ==
    SumSeq([i \in DOMAIN t.rows |->
               IF is_large_order(t, i) /\ Direction(t, i) = d THEN Amount(t, i) ELSE 0])

\* lines 119-142
Summary(t) ==
    [trade_count |-> Len(t.rows),
     buy_count |-> SideCount(t, 1),
     sell_count |-> SideCount(t, -1),
     neutral_count |-> SideCount(t, 0),
     buy_amount |-> SideAmount(t, 1),
     sell_amount |-> SideAmount(t, -1),
     neutral_amount |-> SideAmount(t, 0),
     net_inflow |-> SideAmount(t, 1) - SideAmount(t, -1),
     buy_ratio |-> GuardedRatio(SideAmount(t, 1), SideAmount(t, 1) + SideAmount(t, -1)),
     sell_ratio |-> GuardedRatio(SideAmount(t, -1), SideAmount(t, 1) + SideAmount(t, -1)),
     ofi |-> Ofi(t),
     vwap |-> Vwap(t),
     total_turnover |-> SumSeq(Amounts(t)),
     large_order_threshold |-> <<Threshold100(t), 100>>,
     large_order_count |-> Len(LargeOrders(t)),
     large_buy_amount |-> LargeAmount(t, 1),
     large_sell_amount |-> LargeAmount(t, -1),
     large_order_net_inflow |-> LargeAmount(t, 1) - LargeAmount(t, -1),
     retail_net_inflow |-> (SideAmount(t, 1) - LargeAmount(t, 1))
                           - (SideAmount(t, -1) - LargeAmount(t, -1))]

\* lines 27-74: the flag list
FlowFlags(t) ==
    (IF "NATURE" \notin t.header THEN <<"missing_nature">> ELSE <<>>)
    \o (IF DirectionNaHigh(t) THEN <<"direction_na_high">> ELSE <<>>)
    \o (IF DirectionAllNa(t) THEN <<"direction_all_na">> ELSE <<>>)
    \o (IF Fallback(t) THEN <<"direction_fallback_price_change">> ELSE <<>>)
    \o (IF "AMOUNT_YUAN" \notin t.header THEN <<"missing_amount">> ELSE <<>>)
    \o (IF ~HasVolume(t) THEN <<"missing_volume">> ELSE <<>>)

FlowResult(summary, large, processed, flags) ==
    [raised |-> FALSE, summary |-> summary, large_orders |-> large,
     processed_df |-> processed, quality_flags |-> flags]

\* mutant of EmptyFlow: the sentinel without its flag
EmptyFlow_unflagged == FlowResult(<<>>, NoFrame, NoFrame, <<>>)
\* lines 18-24
EmptyFlow == FlowResult(<<>>, NoFrame, NoFrame, <<"empty_tick">>)

FlowRaised ==
    [raised |-> TRUE, summary |-> <<>>, large_orders |-> NoFrame,
     processed_df |-> NoFrame, quality_flags |-> <<>>]

\* lines 91-99: the table already has a minute_threshold column, so the
\* merge names the two minute_threshold_x and minute_threshold_y, and
\* df_anal["minute_threshold"] raises KeyError
ThresholdColumnClash(t) == "TIME" \in t.header /\ "minute_threshold" \in t.header

\* analyze
analyze(t) ==
    IF IsBlank(t) THEN EmptyFlow
    ELSE IF ThresholdColumnClash(t) THEN FlowRaised
    ELSE FlowResult(Summary(t), Table(ProcessedColumns(t), LargeOrders(t)),
                    Processed(t), FlowFlags(t))

\* the table analyze is called on: the main table of clean
\* (analysis_page.py line 859), or the caller's table
FlowInput == IF pc = "cleaned" THEN CleanTable(clean_df) ELSE df

\* analyze on the table t, the object `input`: lines 19-24 return two new
\* empty tables; line 26 copies the table and lines 30-85 assign columns of
\* the copy; the merge of line 91 gives a new object, to which line 100
\* assigns; processed_df is that object, or the copy when there is no time
\* column; large_orders is the copy of line 104
AnalyzeHeap(h, input, t, processed, large) ==
    LET work == CopyOf(input, {h.next})
        merged == IF "TIME" \in t.header THEN {h.next + 1} ELSE work
    IN  IF IsBlank(t)
        THEN Put(h, (processed :> {h.next}) @@ (large :> {h.next + 1}), 2, {})
        ELSE IF ThresholdColumnClash(t) THEN Put(h, Nothing, 2, work)
        ELSE Put(h, (processed :> merged) @@ (large :> {h.next + 2}), 3, work \cup merged)

\* the object analyze is called on
FlowObject == IF pc = "cleaned" THEN heap.of["clean_df"] ELSE heap.of["df"]

Analyze ==
    /\ stage = "idle"
    /\ pc \in {"cleaned", "direct"}
    /\ flow_result' = analyze(FlowInput)
    /\ heap' = AnalyzeHeap(heap, FlowObject, FlowInput, "processed_df", "large_orders")
    /\ stage' = "analyzed"
    /\ UNCHANGED <<cleaner_vars, df, window_tables, anomaly_result, flow_again>>

\* analyze called on the processed table of a first call
Reanalyze ==
    /\ stage = "analyzed"
    /\ ~flow_result.raised
    /\ flow_again' = analyze(flow_result.processed_df)
    /\ heap' = AnalyzeHeap(heap, heap.of["processed_df"], flow_result.processed_df,
                           "again_processed", "again_large")
    /\ stage' = "reanalyzed"
    /\ UNCHANGED <<cleaner_vars, df, flow_result, window_tables, anomaly_result>>

\* -------------------------------------------------------------- aggregator
\* the window widths, in minutes, the pipeline asks for
\* (analysis_page.py line 889)
window_widths == {1, 5, 10}

\* the members of a finite set of integers in ascending order
Ascending(S) ==
    [k \in 1..Cardinality(S) |-> CHOOSE x \in S : Cardinality({y \in S : y < x}) = k - 1]

\* lines 17-34: a row of df_agg; a column the table lacks gets its default
AggRow(t, r) ==
    LET amount == IF "AMOUNT_YUAN" \in t.header THEN r.amount ELSE 0
        direction == IF "DIRECTION" \in t.header THEN r.direction ELSE 0
    IN  [time |-> Val(r.time),
         price |-> IF "PRICE" \in t.header THEN Some(r.price) ELSE NaN,
         volume |-> IF "VOLUME" \in t.header THEN r.volume ELSE 0,
         amount |-> amount,
         net_inflow |-> IF "NET_INFLOW" \in t.header THEN r.net_inflow ELSE 0,
         buy_side |-> IF direction = 1 THEN amount ELSE 0,
         sell_side |-> IF direction = -1 THEN amount ELSE 0,
         large |-> IF "is_large_order" \in t.header /\ r.is_large_order THEN 1 ELSE 0]

\* line 20: the rows with a time (dropna), before the sort
Timed(t) ==
    LET kept == SelectSeq(t.rows, LAMBDA r : ~IsNA(r.time))
    IN  [i \in DOMAIN kept |-> AggRow(t, kept[i])]

\* line 41: resample(f"{window}min") puts a record in the window that
\* starts at its time floored to a multiple of the width from midnight
WindowStart(time, w) == (time \div (60 * w)) * (60 * w)

\* the rows of the window starting at b, in table order
WindowRows(s, b, w) == SelectSeq(s, LAMBDA r : WindowStart(r.time, w) = b)

\* lines 43-52: the columns agg sums, and the price column it takes ohlc of
SumKeys(t) ==
    {"AMOUNT_YUAN", "VOLUME", "NET_INFLOW", "BUY_SIDE", "SELL_SIDE"}
    \cup (IF "is_large_order" \in t.header THEN {"is_large_order"} ELSE {})
OhlcNames == {"open", "high", "low", "close"}

\* line 57: "_".join(col) of a two-level column name
FlatName(key, sub) == key \o "_" \o sub

\* mutant of SumColumn: the name of the function as the second level
SumColumn_sum(key) == FlatName(key, "sum")
\* lines 54-57: agg with a dict that holds "ohlc" concatenates the per-column
\* results under their keys; a summed column is a Series named after its
\* column, so its two-level name is (column, column)
SumColumn(key) == FlatName(key, key)

AggColumns(t) ==
    {SumColumn(k) : k \in SumKeys(t)} \cup {FlatName("PRICE", o) : o \in OhlcNames}

\* lines 66-80
rename_map(c) ==
    CASE c = "AMOUNT_YUAN_sum" -> "turnover"
      [] c = "AMOUNT_sum" -> "turnover"
      [] c = "VOLUME_sum" -> "volume"
      [] c = "NET_INFLOW_sum" -> "net_inflow"
      [] c = "BUY_SIDE_sum" -> "buy_amount"
      [] c = "SELL_SIDE_sum" -> "sell_amount"
      [] c = "is_large_order_sum" -> "large_order_count"
      [] c = "PRICE_open" -> "price_open"
      [] c = "PRICE_high" -> "price_high"
      [] c = "PRICE_low" -> "price_low"
      [] c = "PRICE_close" -> "price_close"
      [] OTHER -> c

\* the columns of agg_df after the rename
Renamed(t) == {rename_map(c) : c \in AggColumns(t)}

\* the sum of a column over the rows of a window
SumOf(g, key) ==
    SumSeq([i \in DOMAIN g |->
               CASE key = "AMOUNT_YUAN" -> g[i].amount
                 [] key = "VOLUME" -> g[i].volume
                 [] key = "NET_INFLOW" -> g[i].net_inflow
                 [] key = "BUY_SIDE" -> g[i].buy_side
                 [] key = "SELL_SIDE" -> g[i].sell_side
                 [] key = "is_large_order" -> g[i].large])

\* lines 82-108: the column `name` of a window bar: the summed column that
\* was renamed to it, else the column `plain` when agg_df has one of that
\* name, else the default 0
Carried(t, g, name, plain) ==
    IF name \in Renamed(t)
    THEN SumOf(g, CHOOSE k \in SumKeys(t) : rename_map(SumColumn(k)) = name)
    ELSE IF plain \in Renamed(t) /\ plain \in SumKeys(t) THEN SumOf(g, plain)
    ELSE 0

\* "ohlc" of the price over the rows of a window, NaN without a price
Prices(g) == SelectSeq([i \in DOMAIN g |-> g[i].price], LAMBDA p : ~IsNA(p))
\* mutant of Ohlc: the first price of the window for all four
Ohlc_first(g, o) == IF Len(Prices(g)) = 0 THEN NaN ELSE Some(Val(Prices(g)[1]))
\* line 49: first, highest, lowest and last price of the window
Ohlc(g, o) ==
    LET p == [i \in DOMAIN Prices(g) |-> Val(Prices(g)[i])]
    IN  IF Len(p) = 0 THEN NaN
        ELSE CASE o = "open" -> Some(p[1])
               [] o = "close" -> Some(p[Len(p)])
               [] o = "high" -> Some(Kth(p, Len(p)))
               [] o = "low" -> Some(Kth(p, 1))

\* mutant of ZeroGuarded: the division without replace(0, nan) and fillna
ZeroGuarded_unguarded(num, denom) == <<num, denom>>
\* lines 110-116: num / denom.replace(0, nan), then fillna(0.0)
ZeroGuarded(num, denom) == IF denom = 0 THEN <<0, 1>> ELSE <<num, denom>>

\* lines 118-124: (high - low) / vwap.replace(0, nan), fillna(0.0), x 100
RangePct(high, low, vwap) ==
    IF IsNA(high) \/ IsNA(low) \/ vwap[1] = 0 THEN <<0, 1>>
    ELSE <<(Val(high) - Val(low)) * vwap[2] * 100, vwap[1]>>

\* lines 54-127: the bar of the window starting at b
Bar(t, g, b) ==
    LET turnover == Carried(t, g, "turnover", "AMOUNT_YUAN")
        volume == Carried(t, g, "volume", "VOLUME")
        buy_amount == Carried(t, g, "buy_amount", "buy_amount")
        sell_amount == Carried(t, g, "sell_amount", "sell_amount")
        vwap == ZeroGuarded(turnover, volume)
    IN  [time |-> b,
         time_window |-> HHMM(b),
         trade_count |-> Len(g),
         turnover |-> turnover,
         volume |-> volume,
         net_inflow |-> Carried(t, g, "net_inflow", "NET_INFLOW"),
         buy_amount |-> buy_amount,
         sell_amount |-> sell_amount,
         large_order_count |-> Carried(t, g, "large_order_count", "large_order_count"),
         price_open |-> Ohlc(g, "open"),
         price_high |-> Ohlc(g, "high"),
         price_low |-> Ohlc(g, "low"),
         price_close |-> Ohlc(g, "close"),
         ofi |-> ZeroGuarded(buy_amount - sell_amount, buy_amount + sell_amount),
         vwap |-> vwap,
         range_pct |-> RangePct(Ohlc(g, "high"), Ohlc(g, "low"), vwap)]

\* the columns of a window table
BarColumns(t) ==
    Renamed(t) \cup {"TIME", "trade_count", "turnover", "volume", "net_inflow",
                     "large_order_count", "buy_amount", "sell_amount", "ofi", "vwap",
                     "range_pct", "time_window"}

\* lines 40-128: the window table of width w of the sorted rows s;
\* pd.DataFrame() when there is no window with a trade
WindowTable(t, s, w) ==
    LET starts == Ascending({WindowStart(s[i].time, w) : i \in DOMAIN s})
    IN  IF Len(s) = 0 THEN NoFrame
        ELSE Table(BarColumns(t),
                   [k \in DOMAIN starts |-> Bar(t, WindowRows(s, starts[k], w), starts[k])])

\* aggregate over the widths ws: the early return {} is the empty function
NoWindows == [w \in {} |-> NoFrame]

AggregateOutcomes(t, ws) ==
    IF IsBlank(t) \/ "TIME" \notin t.header THEN {NoWindows}
    ELSE {[w \in ws |-> WindowTable(t, Permuted(Timed(t), p), w)] : p \in SortOrders(Timed(t))}

\* aggregate on the table t, the object `input`: line 15 returns no table;
\* line 17 copies the table; the time column is a datetime column, so line
\* 19 assigns nothing; line 20 gives a new sorted object, to which lines
\* 23-34 assign; every window table is a new object (lines 54, 63)
AggregateHeap(h, input, t, ws) ==
    LET work == CopyOf(input, {h.next})
        sorted == {h.next + 1}
    IN  IF IsBlank(t) \/ "TIME" \notin t.header THEN Put(h, "windows" :> {}, 0, {})
        ELSE Put(h, "windows" :> {h.next + 1 + k : k \in 1..Cardinality(ws)},
                 2 + Cardinality(ws), sorted)

Aggregate ==
    /\ stage = "analyzed"
    /\ ~flow_result.raised
    /\ window_tables' \in AggregateOutcomes(flow_result.processed_df, window_widths)
    /\ heap' = AggregateHeap(heap, heap.of["processed_df"], flow_result.processed_df,
                             window_widths)
    /\ stage' = "aggregated"
    /\ UNCHANGED <<cleaner_vars, df, flow_result, anomaly_result, flow_again>>

\* ---------------------------------------------------------------- detector
\* windows.get(w, pd.DataFrame()) (analysis_page.py lines 890-892)
WindowOf(w) == IF w \in DOMAIN window_tables THEN window_tables[w] ELSE NoFrame

\* analysis_page.py line 940: the 5-minute table, else the 1-minute table
anomaly_source == IF ~IsBlank(WindowOf(5)) THEN WindowOf(5) ELSE WindowOf(1)

\* mutant of AtOrAbove95: the rows above the 95th percentile
AtOrAbove95_strict(v) ==
    SelectSeq([i \in DOMAIN v |-> i], LAMBDA i : 100 * v[i] > Percentile100(v, 95))
\* lines 19-21, 34-36: the rows at or above the 95th percentile
AtOrAbove95(v) ==
    SelectSeq([i \in DOMAIN v |-> i], LAMBDA i : 100 * v[i] >= Percentile100(v, 95))

\* lines 19-29: the burst rows, in table order
BurstWindows(rows) ==
    LET burst == AtOrAbove95([i \in DOMAIN rows |-> rows[i].trade_count])
    IN  [k \in DOMAIN burst |->
            [time_window |-> rows[burst[k]].time_window,
             trade_count |-> rows[burst[k]].trade_count,
             net_inflow |-> rows[burst[k]].net_inflow]]

\* mutant of AnomalyNotes: the note of the first burst window only
AnomalyNotes_burst(rows) ==
    IF Len(BurstWindows(rows)) > 0
    THEN <<[note |-> "density_peak", time_window |-> BurstWindows(rows)[1].time_window]>>
    ELSE <<>>
\* lines 31-39: a note naming the first burst window, then a note naming
\* the first window whose absolute net inflow is at or above its cut
AnomalyNotes(rows) ==
    LET spike == AtOrAbove95([i \in DOMAIN rows |-> Abs(rows[i].net_inflow)])
    IN  (IF Len(BurstWindows(rows)) > 0
         THEN <<[note |-> "density_peak", time_window |-> BurstWindows(rows)[1].time_window]>>
         ELSE <<>>)
        \o (IF Len(spike) > 0
            THEN <<[note |-> "inflow_spike", time_window |-> rows[spike[1]].time_window]>>
            ELSE <<>>)

\* lines 13-42
detect(df_tick, window_df) ==
    IF IsBlank(df_tick) \/ IsBlank(window_df)
    THEN [burst_windows |-> <<>>, anomaly_notes |-> <<>>]
    ELSE [burst_windows |-> BurstWindows(window_df.rows),
          anomaly_notes |-> AnomalyNotes(window_df.rows)]

Detect ==
    /\ stage \in {"aggregated", "supplied"}
    /\ anomaly_result' = detect(flow_result.processed_df, anomaly_source)
    /\ stage' = "detected"
    /\ UNCHANGED <<cleaner_vars, df, flow_result, window_tables, flow_again, heap>>


\* ----------------------------------------------------------- raw batches
Row(t, p, v, a, n, d) == [time |-> t, price |-> p, vol |-> v, amt |-> a, nature |-> n, delta |-> d]
Batch(h, rows) == [header |-> h, rows |-> rows]

\* the time of the i-th of rows one minute apart from 10:00:00 on
TimeAt(i) == Clock(HMS(10, i - 1, 0))

RawColumns == {"time", "datetime", "price", "volume", "vol", "amount", "type", "price_change"}

TimeTokens ==
    {BadTime, Clock(HMS(9, 14, 59)), Clock(HMS(9, 15, 0)), Clock(HMS(9, 25, 59)),
     Clock(HMS(9, 26, 0)), Clock(HMS(9, 29, 59)), Clock(HMS(9, 30, 0)),
     Clock(HMS(11, 30, 0)), Clock(HMS(11, 30, 59)), Clock(HMS(11, 31, 0)),
     Clock(HMS(12, 59, 59)), Clock(HMS(13, 0, 0)), Clock(HMS(15, 0, 0)),
     Clock(HMS(15, 0, 1)), Dated(2, HMS(10, 0, 0))}

AllTags ==
    {"Buy", "buy_short", "B", "b", "Sell", "sell_short", "S", "s",
     "Neutral", "neutral_short", "N", "n", "nan", "NaN", "None", "<NA>", "",
     "1", "2", "-1", "0", "active_buy", "active_sell", "buy_sell", "xyz", NA}

\* the batches of the model, by what they vary

\* every clock time of interest, followed by times in the auction, in the
\* session and after it, everything else valid and tagged
TimeFollowers == {Clock(HMS(9, 20, 0)), Clock(HMS(10, 0, 0)), Clock(HMS(15, 0, 1))}
TimeBatches ==
    \E k \in 1..(MaxRows - 1) : \E t \in TimeTokens, f \in [2..k -> TimeFollowers] :
        batch = Batch({"time", "price", "volume", "type"},
                      [i \in 1..k |-> Row(IF i = 1 THEN t ELSE f[i], Num(200), Num(1),
                                          BadNum, "B", Num(0))])

\* valid and invalid times, prices and sizes, in and out of the call auction
ValidityTimes == {BadTime, Clock(HMS(9, 20, 0)), Clock(HMS(10, 0, 0))}
ValidityPrices == {BadNum, Num(0), Num(-200), Num(200)}
ValiditySizes == {BadNum, Num(-1), Num(0), Num(2)}
ValidityRows ==
    {Row(t, p, Num(2), BadNum, "B", Num(0)) : t \in ValidityTimes, p \in ValidityPrices}
    \cup {Row(t, Num(200), v, BadNum, "B", Num(0)) : t \in ValidityTimes, v \in ValiditySizes}
    \cup {Row(Clock(HMS(10, 0, 0)), p, Num(2), BadNum, "N", Num(0)) : p \in ValidityPrices}
\* the rows after the first: valid ones, in the session and in the auction
ValidityFollowers ==
    {Row(Clock(HMS(10, 0, 0)), Num(200), Num(2), BadNum, n, Num(0)) : n \in {"B", "N"}}
    \cup {Row(Clock(HMS(9, 20, 0)), Num(200), Num(2), BadNum, "B", Num(0))}
ValidityBatches ==
    \E k \in 1..(MaxRows - 1) :
        \E r \in ValidityRows, f \in [2..k -> ValidityFollowers] :
            \E h \in {{"time", "price", "volume", "type"}, {"time", "price", "type"}} :
                batch = Batch(h, [i \in 1..k |-> IF i = 1 THEN r ELSE f[i]])

\* tags and prices of rows one minute apart, with and without a tag column;
\* a price is a number of ticks of 0.05, so 200, 202, 201 are 10.0, 10.1, 10.05;
\* the first price is 10.0 or 10.1 and the later ones move around it, the first
\* tag is any of the three and the later ones are neutral or missing
LabelPrices == {Num(200), Num(201), Num(202)}
LabelBatches ==
    \E k \in 1..MaxRows : \E p \in {q \in [1..k -> LabelPrices] : q[1] # Num(201)} :
        \/ \E n \in {m \in [1..k -> {"B", "N", ""}] : \A i \in 2..k : m[i] # "B"} :
              batch = Batch({"time", "price", "type"},
                            [i \in 1..k |-> Row(TimeAt(i), p[i], Num(1), BadNum, n[i], Num(0))])
        \/ batch = Batch({"time", "price"},
                         [i \in 1..k |-> Row(TimeAt(i), p[i], Num(1), BadNum, NA, Num(0))])

\* tagged and untagged rows in the auction, in the session and after it
SessionLabelBatches ==
    \E k \in 1..(MaxRows - 1) :
        \E t \in [1..k -> {Clock(HMS(9, 20, 0)), Clock(HMS(10, 0, 0)), Clock(HMS(16, 0, 0))}],
           n \in [1..k -> {"B", "N", ""}] :
            batch = Batch({"time", "price", "type"},
                          [i \in 1..k |-> Row(t[i], Num(200), Num(1), BadNum, n[i], Num(0))])

\* every spelling of a tag, followed by tagged and untagged rows
TagBatches ==
    \E k \in 1..(MaxRows - 1) : \E n \in AllTags, f \in [2..k -> {"B", ""}] :
        batch = Batch({"time", "price", "type"},
                      [i \in 1..k |-> Row(TimeAt(i), Num(200), Num(1), BadNum,
                                          IF i = 1 THEN n ELSE f[i], Num(0))])

\* an explicit price-delta column, the price rising from row to row
DeltaBatches ==
    \E k \in 1..(MaxRows - 1) :
        \E h \in {{"time", "price", "type", "price_change"}, {"time", "price", "price_change"}},
           n \in [1..k -> {"N", ""}],
           d \in [1..k -> {Num(1), Num(-1), BadNum}] :
            batch = Batch(h, [i \in 1..k |-> Row(TimeAt(i), Num(198 + 2 * i), Num(1), BadNum, n[i], d[i])])

\* every set of columns, with and without rows
ColumnBatches ==
    \E h \in SUBSET RawColumns :
        \/ batch = Batch(h, <<>>)
        \/ \E k \in 1..(MaxRows - 2) : \E t \in {BadTime, Clock(HMS(10, 0, 0))} :
              batch = Batch(h, [i \in 1..k |->
                                   Row(IF i = 1 THEN t ELSE Clock(HMS(10, 0, 0)),
                                       Num(200), Num(1), NumWan(2), "B", Num(0))])

\* turnovers that price x size can and cannot repair: a size of a lot, of
\* 0 or no size column, the turnover positive, negative, unparsable or (in
\* the first row) 0
FlowBatches ==
    \E k \in 1..(MaxRows - 1) :
        \E h \in {{"time", "price", "type", "amount"}, {"time", "price", "type", "amount", "volume"}},
           a \in {m \in [1..k -> {Num(300), Num(-100), Num(0), BadNum}] :
                       \A i \in 2..k : m[i] # Num(0)},
           v \in [1..k -> {Num(0), Num(1)}] :
            batch = Batch(h, [i \in 1..k |->
                                 Row(Clock(HMS(10, 0, 0)), Num(200), v[i], a[i],
                                     IF i % 2 = 1 THEN "B" ELSE "S", Num(0))])

\* no table at all
AbsentBatch == batch = None

Batches ==
    \/ TimeBatches
    \/ ValidityBatches
    \/ LabelBatches
    \/ SessionLabelBatches
    \/ TagBatches
    \/ DeltaBatches
    \/ ColumnBatches
    \/ FlowBatches
    \/ AbsentBatch

\* ------------------------------------------------- tables passed to analyze
TickRow(t, p, v, a, n) == [time |-> t, price |-> p, volume |-> v, amount |-> a, nature |-> n]

\* Buy and Sell in turn
Alternating(i) == IF i % 2 = 1 THEN Buy ELSE Sell

\* turnovers around the minimum large-order threshold, in the early
\* period and after it, in one clock minute and in several, with and
\* without a time column; the timed records are in the order of their times
ThresholdTimes ==
    <<NaN, Some(86400 + HMS(10, 30, 30)), Some(86400 + HMS(10, 31, 10)),
      Some(86400 + HMS(10, 31, 40))>>
ThresholdAmounts == {large_order_min \div 2, large_order_min,
                     (large_order_min * 12) \div 10, 2 * large_order_min}
ThresholdTables ==
    \E k \in 1..(MaxRows - 1) :
        \E t \in {u \in [1..k -> DOMAIN ThresholdTimes] :
                       \A i \in 1..(k - 1) : u[i] <= u[i + 1]},
           a \in [1..k -> ThresholdAmounts] :
            \/ df = Table(CleanColumns,
                          [i \in 1..k |-> TickRow(ThresholdTimes[t[i]], 200, 1000, a[i],
                                                  Alternating(i))])
            \/ /\ \A i \in 1..k : ThresholdTimes[t[i]] = NaN
               /\ df = Table(CleanColumns \ {"TIME"},
                             [i \in 1..k |-> TickRow(NaN, 200, 1000, a[i], Alternating(i))])

\* labels with and without a direction, rising and falling prices, with
\* and without a label column and a price column
DirectionLabels == {Buy, Sell, Neutral, "xyz", NA}
DirectionTables ==
    \E k \in 1..(MaxRows - 1) :
        \/ \E n \in [1..k -> DirectionLabels],
                 p \in {q \in [1..k -> {200, 201}] : q[1] = 200} :
              df = Table({"PRICE", "VOLUME", "AMOUNT_YUAN", "NATURE"},
                         [i \in 1..k |-> TickRow(NaN, p[i], 100, 1000, n[i])])
        \/ \E p \in [1..k -> {200, 201}] :
              df = Table({"PRICE", "VOLUME", "AMOUNT_YUAN"},
                         [i \in 1..k |-> TickRow(NaN, p[i], 100, 1000, NA)])
        \/ \E n \in [1..k -> DirectionLabels] :
              df = Table({"VOLUME", "AMOUNT_YUAN", "NATURE"},
                         [i \in 1..k |-> TickRow(NaN, 200, 100, 1000, n[i])])

\* nine to eleven records of which none, one or two have a label without
\* a direction: a tenth of the labels, and just less and just more
LongTables ==
    \E k \in 9..11 : \E j \in 0..2 :
        df = Table({"PRICE", "VOLUME", "AMOUNT_YUAN", "NATURE"},
                   [i \in 1..k |-> TickRow(NaN, 200, 100, 1000, IF i <= j THEN "xyz" ELSE Buy)])

\* records with and without turnover and size, of every direction (Buy
\* and Sell after the first), in one five-minute window and in two, in the
\* order of their times
RatioTimes == <<Some(86400 + HMS(10, 4, 59)), Some(86400 + HMS(10, 5, 0))>>
RatioSizes == {<<0, 0>>, <<1000, 100>>, <<1000, 0>>}
RatioTables ==
    \E k \in 1..(MaxRows - 1) :
        \E t \in {u \in [1..k -> DOMAIN RatioTimes] : \A i \in 1..(k - 1) : u[i] <= u[i + 1]},
           a \in [1..k -> RatioSizes],
           n \in {m \in [1..k -> {Buy, Sell, Neutral}] : \A i \in 2..k : m[i] # Neutral} :
            df = Table(CleanColumns,
                       [i \in 1..k |-> TickRow(RatioTimes[t[i]], 198 + 2 * i, a[i][2],
                                               a[i][1], n[i])])

\* a table that lacks some of the columns
SparseTables ==
    \E h \in SUBSET CleanColumns :
        df = Table(h, <<TickRow(Some(86400 + HMS(10, 0, 0)), 200, 100, 1000, Buy)>>)

\* no table, a table without columns, a table without rows
BlankTables == df \in {None, NoFrame, Table(CleanColumns, <<>>)}

\* ------------------------------------------ window tables passed to detect
\* the bar of the i-th five-minute window from 09:30 on, with the trade
\* count and the net inflow given
SuppliedBar(i, count, inflow) ==
    LET b == 86400 + HMS(9, 30, 0) + 300 * (i - 1)
    IN  [time |-> b,
         time_window |-> HHMM(b),
         trade_count |-> count,
         turnover |-> Abs(inflow),
         volume |-> 0,
         net_inflow |-> inflow,
         buy_amount |-> Max(inflow, 0),
         sell_amount |-> Max(-inflow, 0),
         large_order_count |-> 0,
         price_open |-> NaN,
         price_high |-> NaN,
         price_low |-> NaN,
         price_close |-> NaN,
         ofi |-> ZeroGuarded(inflow, Abs(inflow)),
         vwap |-> <<0, 1>>,
         range_pct |-> <<0, 1>>]

\* the columns of a window table as documented
SuppliedColumns ==
    {"TIME", "time_window", "trade_count", "turnover", "volume", "net_inflow",
     "buy_amount", "sell_amount", "large_order_count", "price_open", "price_high",
     "price_low", "price_close", "ofi", "vwap", "range_pct"}

SuppliedTable(bars) == [w \in {5} |-> Table(SuppliedColumns, bars)]

\* one classified trade, the tick table that goes with the windows
OneTrade == Table(CleanColumns, <<TickRow(Some(86400 + HMS(9, 30, 0)), 200, 100, 1000, Buy)>>)

\* a few windows of every trade count and net inflow
ShortWindows ==
    /\ df = OneTrade
    /\ \E k \in 1..(MaxRows - 1) :
          \E c \in [1..k -> {1, 2}], f \in [1..k -> {-1000, 0, 500}] :
              window_tables = SuppliedTable([i \in 1..k |-> SuppliedBar(i, c[i], f[i])])

\* twenty-one windows, where the 95th percentile is the second largest
\* value: trade counts and net inflows that rise, then fall back
LongWindows ==
    /\ df = OneTrade
    /\ \E j \in 18..21 : \E d \in {-1, 1} :
          window_tables =
              SuppliedTable([i \in 1..21 |->
                                SuppliedBar(i, IF i <= j THEN i ELSE 1,
                                            d * 100 * (IF i <= j - 1 THEN 22 - i ELSE 2))])

\* windows without a tick table
OrphanWindows ==
    /\ df \in {None, NoFrame}
    /\ window_tables = SuppliedTable(<<SuppliedBar(1, 1, 500)>>)

Windows ==
    \/ ShortWindows
    \/ LongWindows
    \/ OrphanWindows

Tables ==
    \/ ThresholdTables
    \/ DirectionTables
    \/ LongTables
    \/ RatioTables
    \/ SparseTables
    \/ BlankTables

\* ------------------------------------------------------------------ spec
\* nothing returned yet
Pending ==
    [raised |-> FALSE, summary |-> <<>>, large_orders |-> NoFrame,
     processed_df |-> NoFrame, quality_flags |-> <<>>]

Init ==
    /\ current_date = 1
    /\ \/ /\ pc = "raw" /\ Batches /\ df = NoFrame
          /\ stage = "idle" /\ flow_result = Pending /\ window_tables = NoWindows
          /\ heap = [next |-> 2, of |-> ("batch" :> {1}) @@ NoObjects, written |-> {}]
       \/ /\ pc = "direct" /\ batch = Batch({}, <<>>) /\ Tables
          /\ stage = "idle" /\ flow_result = Pending /\ window_tables = NoWindows
          /\ heap = [next |-> 2, of |-> ("df" :> {1}) @@ NoObjects, written |-> {}]
       \/ /\ pc = "windows" /\ batch = Batch({}, <<>>) /\ Windows
          /\ stage = "supplied" /\ flow_result = analyze(df)
          /\ heap = AnalyzeHeap([next |-> 3,
                                 of |-> ("df" :> {1}) @@ ("windows" :> {2}) @@ NoObjects,
                                 written |-> {}],
                                {1}, df, "processed_df", "large_orders")
    /\ clean_df = <<>>
    /\ quality_flags = <<>>
    /\ auction_df = <<>>
    /\ inferred_ratio = <<0, 1>>
    /\ df_normalized = <<>>
    /\ df_inferred = <<>>
    /\ df_labelled = <<>>
    /\ anomaly_result = [burst_windows |-> <<>>, anomaly_notes |-> <<>>]
    /\ flow_again = Pending

Next ==
    \/ Clean
    \/ Analyze
    \/ Reanalyze
    \/ Aggregate
    \/ Detect

Spec == Init /\ [][Next]_vars

\* ---------------------------------------------------------------- claims
Returns == pc = "cleaned"

HasFlag(f) == \E i \in DOMAIN quality_flags : quality_flags[i] = f

\* a property of every record of the two returned tables
AllReturned(P(_)) ==
    /\ \A i \in DOMAIN clean_df : P(clean_df[i])
    /\ \A i \in DOMAIN auction_df : P(auction_df[i])

InMain(i) == \E k \in DOMAIN clean_df : clean_df[k].idx = i
InAuction(i) == \E k \in DOMAIN auction_df : auction_df[k].idx = i

\* the raw row i has a parsable timestamp, a positive price and, when the
\* table has a size column, a non-negative size
RawTime(i) == ParseTime(batch.rows[i].time, current_date)
RawPrice(i) == _to_numeric(batch.rows[i].price)
RawSize(i) == _to_numeric(batch.rows[i].vol)
Usable(i) ==
    /\ ~IsNA(RawTime(i))
    /\ ~IsNA(RawPrice(i)) /\ Val(RawPrice(i)) > 0
    /\ HasCol(batch, "VOLUME") => (~IsNA(RawSize(i)) /\ Val(RawSize(i)) >= 0)
RawClock(i) == TimeOfDay(Val(RawTime(i)))
Mandatory == HasCol(batch, "TIME") /\ HasCol(batch, "PRICE")

\* C1: a non-empty batch without a timestamp column or without a price
\* column comes back as (empty table, flags with missing_time or
\* missing_price, empty table, 0.0), and clean does not raise.
C1_MissingMandatoryColumn ==
    (pc # "raw" /\ ~IsEmpty(batch) /\ ~Mandatory)
        => /\ pc = "cleaned"
           /\ clean_df = <<>> /\ auction_df = <<>> /\ inferred_ratio[1] = 0
           /\ IF ~HasCol(batch, "TIME") THEN HasFlag("missing_time")
              ELSE HasFlag("missing_price")

\* C2 as stated: every record of the main table has its time of day, to
\* the second, in 09:30:00..11:30:00 or 13:00:00..15:00:00.
C2_SessionToTheSecond ==
    Returns => \A i \in DOMAIN clean_df :
        LET t == TimeOfDay(clean_df[i].time)
        IN  \/ HMS(9, 30, 0) <= t /\ t <= HMS(11, 30, 0)
            \/ HMS(13, 0, 0) <= t /\ t <= HMS(15, 0, 0)

\* C2 amended: every record of the main table has its time of day in
\* 09:30:00..11:30:59 (the morning bound is taken to the minute) or in
\* 13:00:00..15:00:00 (the closing bound is taken to the second).
C2_SessionBounds ==
    Returns => \A i \in DOMAIN clean_df :
        LET t == TimeOfDay(clean_df[i].time)
        IN  \/ HMS(9, 30, 0) <= t /\ t <= HMS(11, 30, 59)
            \/ HMS(13, 0, 0) <= t /\ t <= HMS(15, 0, 0)

C2_Witness ==
    /\ Returns
    /\ Len(clean_df) < Len(df_labelled)
    /\ \E i \in DOMAIN clean_df : TimeOfDay(clean_df[i].time) = HMS(11, 30, 59)

\* C3: no record later than 15:00:00 is in the main table, and a usable
\* record stamped exactly 15:00:00 is in it.
C3_ClosingSecond ==
    Returns =>
        /\ \A i \in DOMAIN clean_df : TimeOfDay(clean_df[i].time) <= HMS(15, 0, 0)
        /\ Mandatory =>
              \A i \in DOMAIN batch.rows :
                  (Usable(i) /\ RawClock(i) = HMS(15, 0, 0)) => InMain(i)

C3_Witness ==
    /\ Returns
    /\ \E i \in DOMAIN batch.rows : Usable(i) /\ RawClock(i) = HMS(15, 0, 1)
    /\ \E i \in DOMAIN clean_df : TimeOfDay(clean_df[i].time) = HMS(15, 0, 0)

\* C4: every usable record whose clock time is in the minutes 09:15..09:25
\* is in the auction table and not in the main table, and no record is in
\* both tables.
C4_AuctionSplit ==
    (Returns /\ Mandatory) =>
        /\ \A i \in DOMAIN batch.rows :
              (Usable(i) /\ HMS(9, 15, 0) <= RawClock(i) /\ RawClock(i) <= HMS(9, 25, 59))
                  => (InAuction(i) /\ ~InMain(i))
        /\ \A i \in DOMAIN batch.rows : ~(InAuction(i) /\ InMain(i))

C4_Witness ==
    /\ Returns
    /\ Len(clean_df) > 0
    /\ \E i \in DOMAIN auction_df : TimeOfDay(auction_df[i].time) = HMS(9, 25, 59)

\* the tag of raw row i after normalization
RawTag(i) == IF HasCol(batch, "NATURE") THEN NormalizeNature(batch.rows[i].nature) ELSE NA

Inferences(t) == Cardinality({i \in DOMAIN t : t[i].source # "raw"})
ValidTags(t) == Cardinality({i \in DOMAIN t : t[i].nature \in valid_natures})

\* C5 as stated: in a batch with at least one valid Buy or Sell tag, every
\* returned record whose tag normalizes to Buy, Sell or Neutral keeps that
\* label, with provenance raw.
C5_ValidTagsKept_AnyRow ==
    (Returns /\ \E i \in DOMAIN batch.rows : RawTag(i) \in {Buy, Sell})
        => AllReturned(LAMBDA r : RawTag(r.idx) \in valid_natures
                                     => (r.nature = RawTag(r.idx) /\ r.source = "raw"))

\* C5 amended: in a batch where at least one record with a parsable
\* timestamp, a positive price and a non-negative size has a valid Buy or
\* Sell tag, every returned record whose tag normalizes to Buy, Sell or
\* Neutral keeps that label, with provenance raw.
C5_ValidTagsKept ==
    (Returns /\ \E i \in DOMAIN batch.rows : Usable(i) /\ RawTag(i) \in {Buy, Sell})
        => AllReturned(LAMBDA r : RawTag(r.idx) \in valid_natures
                                     => (r.nature = RawTag(r.idx) /\ r.source = "raw"))

C5_Witness ==
    /\ Returns
    /\ \E i \in DOMAIN batch.rows : Usable(i) /\ RawTag(i) \in {Buy, Sell}
    /\ \E i \in DOMAIN clean_df : clean_df[i].source = "inferred" /\ clean_df[i].nature = Buy
    /\ \E i \in DOMAIN clean_df : clean_df[i].source = "raw" /\ clean_df[i].nature = Neutral

\* the full re-inference: the flag, ratio 1.0, every label the one inferred
\* for its row, every provenance inferred_all
FullyReinferred ==
    /\ HasFlag("nature_all_neutral_inferred")
    /\ inferred_ratio[1] = inferred_ratio[2]
    /\ \A k \in DOMAIN df_labelled :
          /\ df_labelled[k].nature = Inferred(batch, df_normalized, k)
          /\ df_labelled[k].source = "inferred_all"
    /\ AllReturned(LAMBDA r : r.source = "inferred_all")

\* C6 as stated: whenever no row is labelled Buy or Sell after the
\* normalization and the inference of the missing tags, all labels are
\* re-inferred (inferred_all, ratio 1.0, flag nature_all_neutral_inferred).
C6_AllNeutral_AfterInference ==
    (/\ Returns
     /\ Len(df_inferred) > 0
     /\ \A k \in DOMAIN df_inferred : df_inferred[k].nature \notin {Buy, Sell})
        => FullyReinferred

\* C6 amended: whenever no tag is missing after normalization (so nothing
\* was inferred) and no row is labelled Buy or Sell, all labels are
\* re-inferred (inferred_all, ratio 1.0, flag nature_all_neutral_inferred).
C6_AllNeutral_NothingMissing ==
    (/\ Returns
     /\ Len(df_inferred) > 0
     /\ \A k \in DOMAIN df_normalized : df_normalized[k].nature # NA
     /\ \A j \in DOMAIN df_inferred : df_inferred[j].nature \notin {Buy, Sell})
        => FullyReinferred

C6_Witness ==
    /\ Returns
    /\ HasFlag("nature_all_neutral_inferred")
    /\ \E i \in DOMAIN clean_df : clean_df[i].nature = Buy
    /\ \E i \in DOMAIN clean_df : clean_df[i].nature = Sell

\* C7 as stated: inferred_ratio is the fraction of the records of the
\* main table whose label was inferred, when the main table is not empty.
C7_RatioOfMainTable ==
    (Returns /\ Len(clean_df) > 0)
        => inferred_ratio[1] * Len(clean_df) = inferred_ratio[2] * Inferences(clean_df)

\* C7 amended: when the main table is not empty, inferred_ratio is the
\* fraction of the records that passed the time, price and size validation
\* (those of the main table, of the auction table and those outside the
\* sessions) whose label was inferred.
C7_RatioOfValidated ==
    (Returns /\ Len(clean_df) > 0)
        => inferred_ratio[1] * Len(df_labelled) = inferred_ratio[2] * Inferences(df_labelled)

C7_Witness ==
    /\ Returns
    /\ Len(clean_df) > 0 /\ Len(clean_df) < Len(df_labelled)
    /\ 0 < inferred_ratio[1] /\ inferred_ratio[1] < inferred_ratio[2]
    /\ Inferences(clean_df) = 0

\* Scenario A: three rows one minute apart in the session, prices 10.0,
\* 10.1, 10.05 (200, 202, 201 ticks of 0.05), no direction tags
ScenarioA ==
    /\ batch.header \in {{"time", "price"}, {"time", "price", "type"}}
    /\ Len(batch.rows) = 3
    /\ \A i \in DOMAIN batch.rows :
          /\ batch.rows[i].time = TimeAt(i)
          /\ batch.rows[i].price = Num(<<200, 202, 201>>[i])
          /\ RawTag(i) = NA

\* C8 as stated: Scenario A labels row 2 Buy and row 3 Sell, inferred_ratio 1.0.
C8_ScenarioA_Sell ==
    (Returns /\ ScenarioA)
        => /\ Len(clean_df) = 3
           /\ clean_df[2].nature = Buy
           /\ clean_df[3].nature = Sell
           /\ inferred_ratio[1] = inferred_ratio[2]

\* C8 amended: Scenario A labels row 2 Buy and row 3 Neutral (its fall of
\* 0.495% is not below minus the threshold, 0.6465%), inferred_ratio 1.0.
C8_ScenarioA_Neutral ==
    (Returns /\ ScenarioA)
        => /\ Len(clean_df) = 3
           /\ clean_df[1].nature = Neutral
           /\ clean_df[2].nature = Buy
           /\ clean_df[3].nature = Neutral
           /\ \A i \in DOMAIN clean_df : clean_df[i].source = "inferred"
           /\ inferred_ratio[1] = inferred_ratio[2]

C8_Witness == Returns /\ ScenarioA /\ ~HasCol(batch, "NATURE")

\* C9 as stated: with or without a tag column, when fewer than half of
\* the rows carry a valid label after normalization, the flags contain
\* nature_low_quality.
C9_LowQuality_AnyBatch ==
    (Returns /\ Len(df_normalized) > 0 /\ 2 * ValidTags(df_normalized) < Len(df_normalized))
        => HasFlag("nature_low_quality")

\* C9 amended: for a batch with a tag column, when fewer than half of the
\* rows that passed validation carry a valid label after normalization,
\* the flags contain nature_low_quality.
C9_LowQuality_TagColumn ==
    (Returns /\ HasCol(batch, "NATURE")
        /\ Len(df_normalized) > 0 /\ 2 * ValidTags(df_normalized) < Len(df_normalized))
        => HasFlag("nature_low_quality")

C9_Witness ==
    /\ Returns /\ HasCol(batch, "NATURE")
    /\ ValidTags(df_normalized) > 0
    /\ 2 * ValidTags(df_normalized) < Len(df_normalized)

\* C10: every record of the main and auction tables has a price > 0 and a
\* size >= 0, and comes from a raw row whose price parses to a positive
\* number and whose size, when there is a size column, parses to a
\* non-negative one.
C10_PositivePrice ==
    Returns => AllReturned(LAMBDA r :
        /\ r.price > 0 /\ r.volume >= 0
        /\ ~IsNA(RawPrice(r.idx)) /\ Val(RawPrice(r.idx)) > 0
        /\ HasCol(batch, "VOLUME") => (~IsNA(RawSize(r.idx)) /\ Val(RawSize(r.idx)) >= 0))

C10_Witness ==
    /\ Returns
    /\ Len(clean_df) + Len(auction_df) > 0
    /\ \E i \in DOMAIN batch.rows : ~IsNA(RawTime(i)) /\ ~Usable(i)

\* ------------------------------------------------------ classifier claims
\* analyze has returned a result for a table with rows
Classified == stage # "idle" /\ ~flow_result.raised /\ ~IsBlank(FlowInput)

FlowRows == flow_result.processed_df.rows
FlowSummary == flow_result.summary
HasFlowFlag(f) == \E i \in DOMAIN flow_result.quality_flags : flow_result.quality_flags[i] = f

\* the turnovers of the records in the clock minute of record i
SameMinute(i) ==
    SelectSeq(FlowRows, LAMBDA r : /\ ~IsNA(r.time)
                                   /\ Val(r.time) \div 60 = Val(FlowRows[i].time) \div 60)
MinuteTurnovers(i) == [k \in DOMAIN SameMinute(i) |-> SameMinute(i)[k].amount]

\* the record's time of day is in the minutes 09:30..10:30
InEarlyPeriod(i) ==
    LET m == (Val(FlowRows[i].time) % 86400) \div 60
    IN  9 * 60 + 30 <= m /\ m <= 10 * 60 + 30

\* C11: in a table with a time column, a record is flagged is_large_order
\* iff its turnover >= k * max(large_order_min, 90th percentile of the
\* turnovers of the records of its clock minute), k = 1.2 in the minutes
\* 09:30..10:30 and 1 otherwise; the day-level threshold plays no part (a
\* record without a time has no minute and is not flagged).
C11_MinuteThreshold ==
    (Classified /\ "TIME" \in FlowInput.header) =>
        \A i \in DOMAIN FlowRows :
            IF IsNA(FlowRows[i].time) THEN ~FlowRows[i].is_large_order
            ELSE FlowRows[i].is_large_order <=>
                    1000 * FlowRows[i].amount >=
                        (IF InEarlyPeriod(i) THEN 12 ELSE 10)
                        * Max(100 * large_order_min,
                              Percentile100(MinuteTurnovers(i), large_order_percentile))

C11_Witness ==
    /\ Classified /\ "TIME" \in FlowInput.header
    /\ \E i \in DOMAIN FlowRows :
          /\ FlowRows[i].is_large_order
          /\ 100 * FlowRows[i].amount < FlowSummary.large_order_threshold[1]
    /\ \E i \in DOMAIN FlowRows :
          /\ ~IsNA(FlowRows[i].time) /\ InEarlyPeriod(i)
          /\ ~FlowRows[i].is_large_order
          /\ FlowRows[i].amount > large_order_min

\* C12: no record with a turnover below large_order_min is flagged
\* is_large_order or is in the large-order table, and for a batch whose
\* turnovers are all identical and below the minimum the summary has
\* large_order_count = 0 and large_order_net_inflow = 0.
IdenticalBelowMinimum ==
    \A i \in DOMAIN FlowRows :
        FlowRows[i].amount = FlowRows[1].amount /\ FlowRows[i].amount < large_order_min

C12_BelowMinimumNeverLarge ==
    Classified =>
        /\ \A i \in DOMAIN FlowRows :
              FlowRows[i].is_large_order => FlowRows[i].amount >= large_order_min
        /\ \A i \in DOMAIN flow_result.large_orders.rows :
              flow_result.large_orders.rows[i].amount >= large_order_min
        /\ IdenticalBelowMinimum =>
              /\ FlowSummary.large_order_count = 0
              /\ FlowSummary.large_order_net_inflow = 0

C12_Witness ==
    /\ Classified /\ "TIME" \in FlowInput.header
    /\ Len(FlowRows) > 1
    /\ IdenticalBelowMinimum
    /\ FlowRows[1].amount > 0
    /\ \A i \in DOMAIN FlowRows : ~IsNA(FlowRows[i].time) /\ FlowRows[i].direction # 0

\* the label of record i of the table passed to analyze, and its multiplier
Label(i) == FlowInput.rows[i].nature
Own(i) ==
    CASE Label(i) = Buy -> 1
      [] Label(i) = Sell -> -1
      [] OTHER -> 0
HasDirection(i) == Label(i) \in {Buy, Sell, Neutral}
DeltaSign(i) ==
    IF i = 1 THEN 0
    ELSE IF FlowInput.rows[i].price > FlowInput.rows[i - 1].price THEN 1
    ELSE IF FlowInput.rows[i].price < FlowInput.rows[i - 1].price THEN -1
    ELSE 0

\* C13 as stated: when at least one label maps to a direction (Buy, Sell
\* or Neutral), every record gets the multiplier of its own label.
C13_OwnLabel_AnyMapped ==
    (/\ Classified /\ "NATURE" \in FlowInput.header
     /\ \E i \in DOMAIN FlowRows : HasDirection(i))
        => \A i \in DOMAIN FlowRows : FlowRows[i].direction = Own(i)

\* C13 amended: when at least one label is Buy or Sell, every record gets
\* the multiplier of its own label (Buy +1, Sell -1, Neutral and unmappable
\* 0); when no label is Buy or Sell and the table has a price column, the
\* directions are the signs of the consecutive price deltas and the flag
\* direction_fallback_price_change is set; the flag is set in no other case.
C13_OwnLabel_BuyOrSell ==
    (Classified /\ "NATURE" \in FlowInput.header) =>
        IF \E i \in DOMAIN FlowRows : Label(i) \in {Buy, Sell}
        THEN /\ \A i \in DOMAIN FlowRows : FlowRows[i].direction = Own(i)
             /\ ~HasFlowFlag("direction_fallback_price_change")
        ELSE IF "PRICE" \in FlowInput.header
        THEN /\ \A i \in DOMAIN FlowRows : FlowRows[i].direction = DeltaSign(i)
             /\ HasFlowFlag("direction_fallback_price_change")
        ELSE /\ \A i \in DOMAIN FlowRows : FlowRows[i].direction = 0
             /\ ~HasFlowFlag("direction_fallback_price_change")

C13_Witness ==
    /\ Classified /\ pc = "direct" /\ "NATURE" \in FlowInput.header
    /\ Len(FlowRows) = 2
    /\ Label(1) = Sell /\ Label(2) = "xyz"
    /\ DeltaSign(2) = 1
    /\ FlowRows[2].direction = 0

\* the records whose label maps to a multiplier
MappedLabels == Cardinality({i \in DOMAIN FlowRows : HasDirection(i)})

\* C14 as stated: the flags contain direction_na_high iff fewer than 10%
\* of the records have a label that maps to a multiplier.
C14_NaHigh_FewValid ==
    (Classified /\ "NATURE" \in FlowInput.header) =>
        (HasFlowFlag("direction_na_high") <=> 10 * MappedLabels < Len(FlowRows))

\* C14 amended: the flags contain direction_na_high iff more than 10% of
\* the records have a label that maps to no multiplier.
C14_NaHigh_ManyUnmapped ==
    (Classified /\ "NATURE" \in FlowInput.header) =>
        (HasFlowFlag("direction_na_high")
            <=> 10 * (Len(FlowRows) - MappedLabels) > Len(FlowRows))

C14_Witness ==
    /\ Classified /\ "NATURE" \in FlowInput.header
    /\ Len(FlowRows) = 10
    /\ MappedLabels = 9
    /\ ~HasFlowFlag("direction_na_high")

\* ------------------------------------------- ratio and aggregation claims
\* aggregate has returned
Aggregated == stage \in {"aggregated", "detected"} /\ pc # "windows"

\* the rows of the window table of width w
BarsOf(w) == window_tables[w].rows

\* the classified records with a time in the window of width w starting at b
TradesIn(w, b) ==
    SelectSeq(FlowRows, LAMBDA r : ~IsNA(r.time) /\ (Val(r.time) \div (60 * w)) * (60 * w) = b)
WindowSide(w, b, d) ==
    SumSeq([i \in DOMAIN TradesIn(w, b) |->
               IF TradesIn(w, b)[i].direction = d THEN TradesIn(w, b)[i].amount ELSE 0])

RECURSIVE Gcd(_, _)
Gcd(a, b) == IF b = 0 THEN a ELSE Gcd(b, a % b)

\* a ratio in lowest terms with a positive denominator
Lowest(r) ==
    LET g == Gcd(Abs(r[1]), Abs(r[2]))
        sign == IF r[2] < 0 THEN -1 ELSE 1
    IN  <<sign * (r[1] \div g), sign * (r[2] \div g)>>

\* the ratio r is num / den, and 0 where den is 0
IsQuotient(r, num, den) ==
    IF den = 0 THEN r[1] = 0 /\ r[2] # 0
    ELSE r[2] # 0 /\ Lowest(r) = Lowest(<<num, den>>)
WithinUnit(r) == r[2] # 0 /\ Abs(r[1]) <= Abs(r[2])
IsZero(r) == r[1] = 0 /\ r[2] # 0
Finite(r) == r[2] # 0

\* C15: for a table produced by the cleaner, the OFI of the summary and
\* of every window bar is (buy amount - sell amount) / (buy amount + sell
\* amount) of its records and lies in [-1, 1].
C15_OfiWithinUnit ==
    (Classified /\ pc = "cleaned") =>
        /\ IsQuotient(FlowSummary.ofi,
                      FlowSummary.buy_amount - FlowSummary.sell_amount,
                      FlowSummary.buy_amount + FlowSummary.sell_amount)
        /\ WithinUnit(FlowSummary.ofi)
        /\ Aggregated =>
              \A w \in DOMAIN window_tables : \A k \in DOMAIN BarsOf(w) :
                  LET bar == BarsOf(w)[k]
                  IN  /\ IsQuotient(bar.ofi,
                                    WindowSide(w, bar.time, 1) - WindowSide(w, bar.time, -1),
                                    WindowSide(w, bar.time, 1) + WindowSide(w, bar.time, -1))
                      /\ WithinUnit(bar.ofi)

\* the size column of the table passed to analyze, summed
InputVolume ==
    IF "VOLUME" \in FlowInput.header
    THEN SumSeq([i \in DOMAIN FlowInput.rows |-> FlowInput.rows[i].volume])
    ELSE 0

\* C16: analyze does not raise; a ratio of the summary or of a window bar
\* is never NaN or infinite, and is exactly 0 when its denominator is 0
\* (buy + sell turnover for the OFI, volume for the VWAP, the VWAP for the
\* range percent); analyze flags missing_volume when the total volume is 0.
C16_ZeroDenominator ==
    /\ (stage # "idle" /\ stage # "reanalyzed") => ~flow_result.raised
    /\ Classified =>
          /\ Finite(FlowSummary.ofi) /\ Finite(FlowSummary.vwap)
          /\ Finite(FlowSummary.buy_ratio) /\ Finite(FlowSummary.sell_ratio)
          /\ FlowSummary.buy_amount + FlowSummary.sell_amount = 0
                => (IsZero(FlowSummary.ofi) /\ IsZero(FlowSummary.buy_ratio)
                    /\ IsZero(FlowSummary.sell_ratio))
          /\ InputVolume = 0
                => (IsZero(FlowSummary.vwap) /\ HasFlowFlag("missing_volume"))
    /\ (Classified /\ Aggregated) =>
          \A w \in DOMAIN window_tables : \A k \in DOMAIN BarsOf(w) :
              LET bar == BarsOf(w)[k]
              IN  /\ Finite(bar.ofi) /\ Finite(bar.vwap) /\ Finite(bar.range_pct)
                  /\ bar.buy_amount + bar.sell_amount = 0 => IsZero(bar.ofi)
                  /\ bar.volume = 0 => IsZero(bar.vwap)
                  /\ IsZero(bar.vwap) => IsZero(bar.range_pct)

C16_Witness ==
    /\ Classified /\ Aggregated
    /\ FlowSummary.total_turnover > 0
    /\ FlowSummary.buy_amount + FlowSummary.sell_amount = 0
    /\ "VOLUME" \in FlowInput.header /\ InputVolume = 0
    /\ \E k \in DOMAIN BarsOf(1) :
          BarsOf(1)[k].volume = 0 /\ BarsOf(1)[k].price_high # BarsOf(1)[k].price_low

WindowTurnover(w) == SumSeq([k \in DOMAIN BarsOf(w) |-> BarsOf(w)[k].turnover])

\* C17: for a classified table whose records all have a time, and for
\* every window width, the turnover summed over the rows of the window
\* table is the total turnover of the summary.
C17_TurnoverRoundTrip ==
    (/\ Classified /\ Aggregated
     /\ "TIME" \in FlowInput.header
     /\ \A i \in DOMAIN FlowRows : ~IsNA(FlowRows[i].time))
        => \A w \in window_widths :
              /\ w \in DOMAIN window_tables
              /\ WindowTurnover(w) = FlowSummary.total_turnover

\* C18: analyze applied to the processed table of a first call does not
\* raise, and gives every record the direction and label of the first call.
C18_ReanalyzeSame ==
    stage = "reanalyzed" =>
        /\ ~flow_again.raised
        /\ Len(flow_again.processed_df.rows) = Len(FlowRows)
        /\ \A i \in DOMAIN FlowRows :
              /\ flow_again.processed_df.rows[i].direction = FlowRows[i].direction
              /\ flow_again.processed_df.rows[i].nature = FlowRows[i].nature

\* C19: a window with exactly one trade has open = high = low = close =
\* the trade's price and range percent 0; its OFI is 1 when the trade is a
\* Buy of positive turnover, and its VWAP is the trade's price (turnover =
\* price x size, size > 0).
C19_SingleTradeWindow ==
    (Classified /\ Aggregated) =>
        \A w \in DOMAIN window_tables : \A k \in DOMAIN BarsOf(w) :
            LET bar == BarsOf(w)[k]
                trade == TradesIn(w, bar.time)[1]
            IN  bar.trade_count = 1 =>
                    /\ "PRICE" \in FlowInput.header =>
                          /\ bar.price_open = Some(trade.price)
                          /\ bar.price_high = Some(trade.price)
                          /\ bar.price_low = Some(trade.price)
                          /\ bar.price_close = Some(trade.price)
                    /\ IsZero(bar.range_pct)
                    /\ (trade.direction = 1 /\ trade.amount > 0)
                          => (Finite(bar.ofi) /\ bar.ofi[1] = bar.ofi[2])
                    /\ (trade.volume > 0 /\ trade.amount = trade.price * trade.volume)
                          => IsQuotient(bar.vwap, trade.price, 1)

\* C20: given an empty or absent table, clean returns (empty table,
\* [empty_tick], empty table, 0.0), analyze an empty summary, empty tables
\* and [empty_tick], aggregate no window table, detect empty burst-window
\* and note lists, and none of them raises.
C20_EmptySentinels ==
    /\ (pc \in {"cleaned", "raised"} /\ IsEmpty(batch)) =>
          /\ pc = "cleaned"
          /\ clean_df = <<>> /\ auction_df = <<>>
          /\ quality_flags = <<"empty_tick">>
          /\ inferred_ratio[1] = 0
    /\ (stage # "idle" /\ IsBlank(FlowInput)) =>
          /\ ~flow_result.raised
          /\ DOMAIN flow_result.summary = {}
          /\ IsBlank(flow_result.large_orders) /\ IsBlank(flow_result.processed_df)
          /\ flow_result.quality_flags = <<"empty_tick">>
    /\ (Aggregated /\ IsBlank(flow_result.processed_df)) => DOMAIN window_tables = {}
    /\ (stage = "detected" /\ (IsBlank(flow_result.processed_df) \/ IsBlank(anomaly_source))) =>
          /\ anomaly_result.burst_windows = <<>>
          /\ anomaly_result.anomaly_notes = <<>>

C20_Witness ==
    /\ pc = "cleaned" /\ batch = None
    /\ stage = "detected"
    /\ flow_result.quality_flags = <<"empty_tick">>

\* ---------------------------------------------------------- anomaly claims
\* detect has returned for a tick table and a window table with rows
Detected ==
    stage = "detected" /\ ~IsBlank(flow_result.processed_df) /\ ~IsBlank(anomaly_source)

SourceRows == anomaly_source.rows
TradeCounts == [i \in DOMAIN SourceRows |-> SourceRows[i].trade_count]
AbsInflows == [i \in DOMAIN SourceRows |-> Abs(SourceRows[i].net_inflow)]

\* window i meets the 95th-percentile cut of the trade counts / of the
\* absolute net inflows
IsBurst(i) == 100 * TradeCounts[i] >= Percentile100(TradeCounts, 95)
IsSpike(i) == 100 * AbsInflows[i] >= Percentile100(AbsInflows, 95)

\* window i is in the window list of the report
Listed(i) ==
    \E k \in DOMAIN anomaly_result.burst_windows :
        anomaly_result.burst_windows[k].time_window = SourceRows[i].time_window

\* C21: the window list of the report holds every window whose trade
\* count meets the 95th-percentile cut of the trade counts and every window
\* whose absolute net inflow meets the cut of the absolute net inflows.
C21_BurstsAndSpikesListed ==
    Detected => \A i \in DOMAIN SourceRows : (IsBurst(i) \/ IsSpike(i)) => Listed(i)

\* the windows that meet the trade-count cut, in table order
Bursts == SelectSeq([i \in DOMAIN SourceRows |-> i], IsBurst)

C29_BurstNeverEmpty ==
    Detected =>
        /\ Len(anomaly_result.burst_windows) > 0
        /\ \A i \in DOMAIN SourceRows :
              (\A j \in DOMAIN SourceRows : TradeCounts[j] <= TradeCounts[i]) => Listed(i)
        /\ Len(anomaly_result.anomaly_notes) = 2
        /\ anomaly_result.anomaly_notes[1].note = "density_peak"
        /\ anomaly_result.anomaly_notes[2].note = "inflow_spike"
        /\ (\A i, j \in DOMAIN SourceRows : TradeCounts[i] = TradeCounts[j])
              => Len(anomaly_result.burst_windows) = Len(SourceRows)

C29_Witness ==
    /\ Detected
    /\ Len(SourceRows) > 1
    /\ \A i, j \in DOMAIN SourceRows : TradeCounts[i] = TradeCounts[j]
    /\ anomaly_result.anomaly_notes[1].time_window # anomaly_result.anomaly_notes[2].time_window

\* ------------------------------------------------------------ frame claims
\* the objects the caller holds
Held(h) == UNION {h.of[s] : s \in Slots}

\* C22: no stage changes a table its caller passed in or holds (the same
\* columns, rows and values after the call, and no assignment into the
\* object), and every table a stage returns is an object that did not
\* exist before the call.
C22_InputsKept ==
    [][/\ batch' = batch
       /\ df' = df
       /\ (pc = "cleaned" => clean_df' = clean_df /\ auction_df' = auction_df)
       /\ (stage # "idle" => flow_result' = flow_result)
       /\ (stage \in {"aggregated", "supplied"} => window_tables' = window_tables)
       /\ (heap'.written \ heap.written) \cap Held(heap) = {}
       /\ \A s \in Slots :
             heap'.of[s] # heap.of[s] => heap'.of[s] \cap 1..(heap.next - 1) = {}]_vars

C22_Witness ==
    /\ pc = "cleaned" /\ stage = "detected"
    /\ ~IsBlank(flow_result.processed_df)
    /\ Cardinality(heap.of["windows"]) = Cardinality(window_widths)
    /\ heap.written # {}
    /\ Cardinality(Held(heap)) = 8

\* -------------------------------------------------- cleaner claims, continued
\* T = max(0.0001, 30th percentile of the absolute percent changes of the
\* sorted rows)
InferenceThreshold ==
    IF RLess(<<FloorNum, FloorDen>>, Quantile30(df_normalized))
    THEN Quantile30(df_normalized)
    ELSE <<FloorNum, FloorDen>>

\* the label the claim gives the sorted row i
ExpectedLabel(i) ==
    IF price_delta_col(batch)
    THEN (IF df_normalized[i].delta > 0 THEN Buy
          ELSE IF df_normalized[i].delta < 0 THEN Sell
          ELSE Neutral)
    ELSE IF i = 1 THEN Neutral
    ELSE LET change == <<df_normalized[i].price - df_normalized[i - 1].price,
                         df_normalized[i - 1].price>>
         IN  IF RLess(InferenceThreshold, change) THEN Buy
             ELSE IF RLess(change, <<-InferenceThreshold[1], InferenceThreshold[2]>>) THEN Sell
             ELSE Neutral

\* C23: a row whose label is missing gets, without a price-delta column,
\* Buy when its percent price change from the preceding row in time order
\* is above T, Sell when it is below -T and Neutral otherwise (the first
\* row included), T = max(0.0001, 30th percentile of the absolute percent
\* changes); with a price-delta column it gets the sign of that column.
C23_MissingLabelInferred ==
    Returns =>
        \A i \in DOMAIN df_normalized :
            df_normalized[i].nature = NA
                => /\ df_labelled[i].nature = ExpectedLabel(i)
                   /\ \A k \in DOMAIN clean_df :
                         clean_df[k].idx = df_normalized[i].idx
                             => clean_df[k].nature = ExpectedLabel(i)

C23_Witness ==
    /\ Returns
    /\ ~price_delta_col(batch)
    /\ RLess(<<FloorNum, FloorDen>>, InferenceThreshold)
    /\ \E i, k \in DOMAIN clean_df :
          /\ i > 1 /\ k > 1
          /\ clean_df[i].source = "inferred" /\ clean_df[i].nature = Sell
          /\ clean_df[k].source = "inferred" /\ clean_df[k].nature = Neutral
          /\ clean_df[k].price # clean_df[k - 1].price

\* the turnover the caller supplied for row i of the batch, and the
\* product of its price and its size in shares
SuppliedTurnover(i) == IF HasCol(batch, "AMOUNT") THEN _to_numeric(batch.rows[i].amt) ELSE NaN
PriceTimesShares(i) ==
    IF HasCol(batch, "VOLUME") THEN Val(RawPrice(i)) * Val(RawSize(i)) * 100 ELSE 0

TurnoverBackfilled(r) ==
    /\ (~IsNA(SuppliedTurnover(r.idx)) /\ Val(SuppliedTurnover(r.idx)) > 0)
          => r.amount = Val(SuppliedTurnover(r.idx))
    /\ ((IsNA(SuppliedTurnover(r.idx)) \/ Val(SuppliedTurnover(r.idx)) <= 0)
        /\ PriceTimesShares(r.idx) > 0)
          => r.amount = PriceTimesShares(r.idx)

\* C24: a returned record's turnover is the supplied turnover when that is
\* present and positive, and price x size in shares when the supplied
\* turnover is missing or not positive and the product is positive.
C24_TurnoverBackfill ==
    Returns =>
        /\ \A k \in DOMAIN clean_df : TurnoverBackfilled(clean_df[k])
        /\ \A k \in DOMAIN auction_df : TurnoverBackfilled(auction_df[k])

C24_Witness ==
    /\ Returns
    /\ \E i, j \in DOMAIN clean_df :
          /\ ~IsNA(SuppliedTurnover(clean_df[i].idx))
          /\ Val(SuppliedTurnover(clean_df[i].idx)) < 0
          /\ clean_df[i].amount = PriceTimesShares(clean_df[i].idx)
          /\ clean_df[i].amount > 0
          /\ ~IsNA(SuppliedTurnover(clean_df[j].idx))
          /\ clean_df[j].amount = Val(SuppliedTurnover(clean_df[j].idx))
          /\ clean_df[j].amount > 0
          /\ clean_df[j].amount # PriceTimesShares(clean_df[j].idx)

Provenances == {"raw", "inferred", "inferred_all"}

Labelled(r) ==
    /\ r.nature \in {Buy, Sell, Neutral}
    /\ r.source \in Provenances
    /\ r.source = "raw" => r.nature = RawTag(r.idx)

\* C26: every record of the main table and of the auction table has a
\* label among Buy, Sell and Neutral, never a missing one, and a provenance
\* among raw, inferred and inferred_all; a record of provenance raw has the
\* normalized tag of its source row as its label.
C26_LabelAndProvenance ==
    Returns =>
        /\ \A k \in DOMAIN clean_df : Labelled(clean_df[k])
        /\ \A k \in DOMAIN auction_df : Labelled(auction_df[k])

C26_Witness ==
    /\ Returns
    /\ HasCol(batch, "NATURE")
    /\ \E i, j \in DOMAIN clean_df :
          /\ clean_df[i].source = "raw"
          /\ clean_df[j].source = "inferred"
          /\ batch.rows[clean_df[j].idx].nature = "xyz"

\* ------------------------------------------------ window consistency claims
WindowSum(w, f(_)) == SumSeq([k \in DOMAIN BarsOf(w) |-> f(BarsOf(w)[k])])
BuyAmountOf(bar) == bar.buy_amount
SellAmountOf(bar) == bar.sell_amount
NetInflowOf(bar) == bar.net_inflow

\* C27: for the processed table analyze returned (its records all with a
\* time) and every window width, buy_amount, sell_amount and net_inflow
\* summed over the windows are the buy_amount, sell_amount and net_inflow
\* of the summary, and in every window net_inflow = buy_amount -
\* sell_amount.
C27_SidesRoundTrip ==
    (/\ Classified /\ Aggregated
     /\ "TIME" \in FlowInput.header
     /\ \A i \in DOMAIN FlowRows : ~IsNA(FlowRows[i].time)) =>
        \A w \in window_widths :
            /\ w \in DOMAIN window_tables
            /\ WindowSum(w, BuyAmountOf) = FlowSummary.buy_amount
            /\ WindowSum(w, SellAmountOf) = FlowSummary.sell_amount
            /\ WindowSum(w, NetInflowOf) = FlowSummary.net_inflow
            /\ \A k \in DOMAIN BarsOf(w) :
                  BarsOf(w)[k].net_inflow = BarsOf(w)[k].buy_amount - BarsOf(w)[k].sell_amount

\* the one-minute bars whose start is inside the bar of width w
MinuteBarsIn(w, bar) ==
    SelectSeq(BarsOf(1), LAMBDA m : bar.time <= m.time /\ m.time < bar.time + 60 * w)

\* the bar of width w is the aggregate of the one-minute bars inside it
Consistent(w, bar) ==
    LET inside == MinuteBarsIn(w, bar)
        n == Len(inside)
    IN  /\ n > 0
        /\ bar.turnover = SumSeq([k \in 1..n |-> inside[k].turnover])
        /\ bar.volume = SumSeq([k \in 1..n |-> inside[k].volume])
        /\ bar.net_inflow = SumSeq([k \in 1..n |-> inside[k].net_inflow])
        /\ bar.trade_count = SumSeq([k \in 1..n |-> inside[k].trade_count])
        /\ bar.price_open = inside[1].price_open
        /\ bar.price_close = inside[n].price_close
        /\ IF \E k \in 1..n : IsNA(inside[k].price_high) \/ IsNA(inside[k].price_low)
           THEN IsNA(bar.price_high) /\ IsNA(bar.price_low)
           ELSE /\ ~IsNA(bar.price_high) /\ ~IsNA(bar.price_low)
                /\ \A k \in 1..n : /\ Val(inside[k].price_high) <= Val(bar.price_high)
                                   /\ Val(inside[k].price_low) >= Val(bar.price_low)
                /\ \E k \in 1..n : inside[k].price_high = bar.price_high
                /\ \E k \in 1..n : inside[k].price_low = bar.price_low

\* C28: in the window tables of one aggregate call, every 5-minute and
\* 10-minute bar is the aggregate of the 1-minute bars that start inside it
\* (turnover, volume, net inflow and trade count their sums, high the
\* greatest high, low the least low, open the first open, close the last
\* close), and no bar has trade_count = 0.
C28_WidthsConsistent ==
    (Aggregated /\ DOMAIN window_tables # {}) =>
        /\ \A w \in {5, 10} : \A k \in DOMAIN BarsOf(w) : Consistent(w, BarsOf(w)[k])
        /\ \A w \in DOMAIN window_tables : \A k \in DOMAIN BarsOf(w) :
              BarsOf(w)[k].trade_count > 0

C28_Witness ==
    /\ Aggregated /\ DOMAIN window_tables = window_widths
    /\ \E k \in DOMAIN BarsOf(5) :
          /\ Len(MinuteBarsIn(5, BarsOf(5)[k])) > 2
          /\ BarsOf(5)[k].price_open # BarsOf(5)[k].price_close
          /\ BarsOf(5)[k].price_high # BarsOf(5)[k].price_open
          /\ BarsOf(5)[k].price_high # BarsOf(5)[k].price_close

\* ------------------------------------------------- early-session claims
\* record i has a time, so a clock minute
HasMinute(i) == "TIME" \in FlowInput.header /\ ~IsNA(FlowRows[i].time)

\* the records of the minute of record i all have its turnover (so also
\* when it is the only record of its minute)
AloneOrIdentical(i) ==
    \A k \in DOMAIN MinuteTurnovers(i) : MinuteTurnovers(i)[k] = FlowRows[i].amount

\* record i has the greatest turnover of its minute
HighestOfMinute(i) ==
    \A k \in DOMAIN MinuteTurnovers(i) : MinuteTurnovers(i)[k] <= FlowRows[i].amount

\* C30: with a positive minimum, a record of the minutes 09:30..10:30 that
\* is alone in its clock minute, or whose minute holds only records of its
\* turnover, is never flagged is_large_order; outside those minutes the
\* record of the greatest turnover of a minute is flagged whenever its
\* turnover is at least the minimum.
C30_EarlyNeverAlone ==
    (Classified /\ large_order_min > 0) =>
        \A i \in DOMAIN FlowRows :
            HasMinute(i) =>
                /\ (InEarlyPeriod(i) /\ AloneOrIdentical(i)) => ~FlowRows[i].is_large_order
                /\ (~InEarlyPeriod(i) /\ HighestOfMinute(i)
                    /\ FlowRows[i].amount >= large_order_min) => FlowRows[i].is_large_order

C30_Witness ==
    /\ Classified
    /\ \E i, j \in DOMAIN FlowRows :
          /\ HasMinute(i) /\ InEarlyPeriod(i) /\ AloneOrIdentical(i)
          /\ FlowRows[i].amount >= 2 * large_order_min
          /\ ~FlowRows[i].is_large_order
          /\ HasMinute(j) /\ ~InEarlyPeriod(j) /\ HighestOfMinute(j)
          /\ FlowRows[j].amount = large_order_min
          /\ FlowRows[j].is_large_order

====
